---- MODULE Spec2Model ----
(***************************************************************************)
(* International Fantasy 2025: match cache, ingestion poller, lock gate    *)
(* and day aggregator of the Cloud Functions, modelled as state machines   *)
(* over the Firestore collections they read and write.                     *)
(*                                                                         *)
(* Time is in whole seconds since 2025-09-01T00:00:00Z (epoch 1756684800); *)
(* every date of the model lies in September 2025, the tournament's month. *)
(* A raw provider payload or a request is a record that may lack fields.   *)
(* A Firestore collection is a function whose DOMAIN is the set of ids of  *)
(* the documents that exist.  The server timestamp updatedAt of the        *)
(* documents is not modelled.                                              *)
(***************************************************************************)
EXTENDS Integers, Sequences, FiniteSets, TLC

VARIABLES
  now,            \* Date.now(), seconds since 2025-09-01T00:00:00Z
  tournament,     \* the document tournaments/ti2025 (it may lack lockHourUTC)
  matches,        \* collection "matches": match id -> MatchDoc
  lineups,        \* collection "lineups": lineup id -> LineupDoc
  leaderboards,   \* collection "leaderboards": dateKey (of ti2025) -> LeaderboardDoc
  providerDone,   \* provider: the matches whose detail is final
  pc,             \* pollOpenDota invocation p: where it is
  lidx,           \* ... index of the league it is at
  list,           \* ... the league's match list, newest first
  ridx,           \* ... index of the row it is at
  snap,           \* ... the snapshot read for the row: <<>> or <<doc>>
  det,            \* ... the fetched match detail: <<>> or <<payload>>
  completedDates, \* ... completedDatesByTid.get("ti2025"), in insertion order
  sidx,           \* ... index of the day the final loop is at
  scoreLog,       \* history: the days scoreDay was invoked for, this run
  gained,         \* history: the days a match became complete in the store by this run
  wrote,          \* history: the match ids this run upserted a complete payload for
  runs,           \* history: the runs invocation p has started
  locks,          \* collection "locks": the dateKeys (of ti2025) with a marker
  calls,          \* history: the number of callable and scheduled lineup operations
  lastCall,       \* history: the last callable request and its outcome
  build,          \* which of the repository's function modules is deployed
  scoresPlayer,   \* collection "scores_player": <<matchId, steam32>> -> doc
  scoresTeam,     \* collection "scores_team": <<matchId or series, orgId>> -> doc
  scoresManagerDay \* collection "scores_manager_day": <<mid, dateKey>> -> doc

\* The tournament document, the deployed module and the collections only the
\* stand-alone day scorer (firebaseAdmin.ts) writes.
storeVars == <<tournament, build, scoresPlayer, scoresTeam, scoresManagerDay>>
callVars == <<locks, calls, lastCall>>
pollVars == <<pc, lidx, list, ridx, snap, det, completedDates, sidx,
              scoreLog, gained, wrote, runs>>
vars == <<now, tournament, matches, lineups, leaderboards, providerDone,
          pc, lidx, list, ridx, snap, det, completedDates, sidx,
          scoreLog, gained, wrote, runs, locks, calls, lastCall,
          build, scoresPlayer, scoresTeam, scoresManagerDay>>

TID == "ti2025"

----------------------------------------------------------------------------
(* Utils                                                                   *)

\* A JavaScript object is a record whose DOMAIN holds the fields it has;
\* reading a field it lacks gives undefined.
Has(m, f) == f \in DOMAIN m

\* toInt(m.f), with toInt = parseInt(String(v ?? 0), 10) || 0: a missing
\* field gives 0, an integer gives itself.
toInt(m, f) == IF Has(m, f) THEN m[f] ELSE 0

\* An object without the fields of `gone`.
Without(m, gone) == [f \in DOMAIN m \ gone |-> m[f]]

SecondsPerDay == 24 * 60 * 60
SecondsPerHour == 60 * 60

\* Date.UTC(y, m, d, h, 0, 0) / 1000 relative to the model's time base, for
\* the months the model reaches (m is 0-based: 7 = August, 8 = September).
\* Like Date.UTC it is linear in d, so d = 0 is the last day of the month before.
DateUTC(y, m, d, h) ==
  IF y = 2025 /\ m = 8 THEN (d - 1) * SecondsPerDay + h * SecondsPerHour
  ELSE IF y = 2025 /\ m = 7 THEN (d - 32) * SecondsPerDay + h * SecondsPerHour
  ELSE IF y = 2025 /\ m = 9 THEN (d + 29) * SecondsPerDay + h * SecondsPerHour
  ELSE 0 - 1000 * SecondsPerDay

\* Floor division by a positive number (TLC's \div floors already; kept
\* explicit because the instants before the time base are negative).
FloorDiv(a, b) == IF a >= 0 THEN a \div b ELSE 0 - (((0 - a) + b - 1) \div b)

\* yyyymmddFromUTC(new Date(secs * 1000)): the 8-digit key of the UTC day.
yyyymmddFromUTC(secs) ==
  LET day == FloorDiv(secs, SecondsPerDay)      \* 0 = 1 September
  IN  IF day < 0 THEN 20250800 + (31 + day + 1)
      ELSE IF day < 30 THEN 20250900 + (day + 1)
      ELSE 20251000 + (day - 30 + 1)

DEFAULT_LOCK_HOUR_UTC == 8

\* getTournament(tid): leagueIds ([] when missing) and lockHourUTC (the
\* default when the document has no finite one).
getTournament(t) ==
  [leagueIds |-> IF Has(t, "leagueIds") THEN t.leagueIds ELSE <<>>,
   lockHourUTC |-> IF Has(t, "lockHourUTC") THEN t.lockHourUTC ELSE DEFAULT_LOCK_HOUR_UTC]

\* lockTimestamp(dateKey, lockHourUTC): the instant of lockHourUTC:00:00 UTC
\* on the day the 8-digit key names.
lockTimestamp(dateKey, hour) ==
  LET y == dateKey \div 10000
      m == ((dateKey \div 100) % 100) - 1
      d == dateKey % 100
  IN  DateUTC(y, m, d, hour)

----------------------------------------------------------------------------
(* Provider payloads (OpenDota match detail) within the model's bounds     *)

\* One raw player row of a match detail.  Row i of a match: rows 1..5 are
\* radiant (player_slot 0..4), the others dire (player_slot 128 and up).
RawRow(i) ==
  [account_id |-> 100 + i,
   player_slot |-> IF i <= 5 THEN i - 1 ELSE 128 + (i - 6),
   kills |-> i % 3, deaths |-> (i + 1) % 3, assists |-> (2 * i) % 5,
   last_hits |-> 10 * i, denies |-> i,
   obs_placed |-> i % 2, camps_stacked |-> i % 4,
   isRadiant |-> i <= 5, win |-> i <= 5, name |-> "P" \o ToString(i)]

RawRows(n) == [i \in 1..n |-> RawRow(i)]

FirstBloodEvent == [type |-> "CHAT_MESSAGE_FIRST_BLOOD", player_slot |-> 1, time |-> 95]
OtherEvent == [type |-> "building_kill", player_slot |-> 130, time |-> 400]

\* A raw match detail; the fields the bounds do not vary are fixed.
RawMatch(id, start, players, duration, objectives) ==
  [match_id |-> id, series_id |-> 50 + id, series_type |-> 1,
   radiant_team_id |-> 7, dire_team_id |-> 8, radiant_win |-> TRUE,
   radiant_team |-> [team_id |-> 7, tag |-> "A", name |-> "A"],
   dire_team |-> [team_id |-> 8, tag |-> "B", name |-> "B"],
   duration |-> duration,
   tower_status_radiant |-> 2047, tower_status_dire |-> 0,
   barracks_status_radiant |-> 63, barracks_status_dire |-> 0,
   objectives |-> objectives, players |-> players,
   start_time |-> start, radiant_name |-> "A", dire_name |-> "B"]

----------------------------------------------------------------------------
(* Cache helpers                                                           *)

\* A completeness test that accepts 10 rows or more.
looksCompleteAtLeast(m) ==
  Has(m, "players") /\ Len(m.players) >= 10 /\ toInt(m, "duration") > 0

\* looksComplete(m): exactly 10 player rows and a positive duration.
\* Array.isArray(m.players) is false for a missing field.
looksComplete(m) ==
  LET hasPlayers == Has(m, "players") /\ Len(m.players) = 10
      hasDuration == toInt(m, "duration") > 0
  IN  hasPlayers /\ hasDuration

\* The objective types toSlimMatch keeps.
IsScoredObjective(o) ==
  o.type = "CHAT_MESSAGE_ROSHAN_KILL" \/ o.type = "CHAT_MESSAGE_FIRST_BLOOD"

SlimObjective(o) ==
  [type |-> o.type, player_slot |-> toInt(o, "player_slot"), time |-> toInt(o, "time")]

SlimPlayer(p) ==
  [account_id |-> toInt(p, "account_id"), player_slot |-> toInt(p, "player_slot"),
   kills |-> toInt(p, "kills"), deaths |-> toInt(p, "deaths"),
   assists |-> toInt(p, "assists"),
   last_hits |-> toInt(p, "last_hits"), denies |-> toInt(p, "denies"),
   obs_placed |-> toInt(p, "obs_placed"), camps_stacked |-> toInt(p, "camps_stacked")]

\* toSlimMatch(tid, match): the stored projection of a raw match detail.
\* Every field of MatchDoc is present in the result, whatever the payload has.
toSlimMatch(tid, match) ==
  LET startSecs == toInt(match, "start_time")
      objectives == IF Has(match, "objectives")
                    THEN SelectSeq(match.objectives, IsScoredObjective)
                    ELSE <<>>
      slimObjs == [k \in 1..Len(objectives) |-> SlimObjective(objectives[k])]
      players == IF Has(match, "players")
                 THEN [k \in 1..Len(match.players) |-> SlimPlayer(match.players[k])]
                 ELSE <<>>
  IN  [match_id |-> toInt(match, "match_id"),
       series_id |-> toInt(match, "series_id"),
       series_type |-> toInt(match, "series_type"),
       radiant_team_id |-> toInt(match, "radiant_team_id"),
       dire_team_id |-> toInt(match, "dire_team_id"),
       radiant_win |-> (Has(match, "radiant_win") /\ match.radiant_win),
       duration |-> toInt(match, "duration"),
       tower_status_radiant |-> toInt(match, "tower_status_radiant"),
       tower_status_dire |-> toInt(match, "tower_status_dire"),
       barracks_status_radiant |-> toInt(match, "barracks_status_radiant"),
       barracks_status_dire |-> toInt(match, "barracks_status_dire"),
       objectives |-> slimObjs,
       players |-> players,
       start_time |-> startSecs,
       radiant_name |-> IF Has(match, "radiant_name") THEN match.radiant_name ELSE "",
       dire_name |-> IF Has(match, "dire_name") THEN match.dire_name ELSE "",
       tid |-> tid,
       dateKey |-> yyyymmddFromUTC(startSecs),
       complete |-> looksComplete([players |-> players, duration |-> toInt(match, "duration")])]

\* A merge that appends the rows of a stored players array instead of
\* replacing the array.
MergeFieldsAppending(old, data) ==
  [f \in DOMAIN old \cup DOMAIN data |->
     IF f \in DOMAIN data
     THEN (IF f = "players" /\ f \in DOMAIN old THEN old[f] \o data[f] ELSE data[f])
     ELSE old[f]]

\* Firestore's doc(id).set(data, {merge: true}) on a collection: the fields of
\* data replace the stored ones (an array is replaced whole), the stored
\* fields data lacks stay, and a missing document is created.
MergeFields(old, data) ==
  [f \in DOMAIN old \cup DOMAIN data |-> IF f \in DOMAIN data THEN data[f] ELSE old[f]]

SetMerge(coll, id, data) ==
  [k \in DOMAIN coll \cup {id} |->
     IF k = id
     THEN (IF id \in DOMAIN coll THEN MergeFields(coll[id], data) ELSE data)
     ELSE coll[k]]

\* upsertMatchDoc(tid, match): the collection after the write.  The document
\* id is the projected match_id; the call returns dateKey and complete of
\* the projection.
upsertMatchDoc(coll, tid, match) ==
  LET doc == toSlimMatch(tid, match)
  IN  SetMerge(coll, doc.match_id, doc)

----------------------------------------------------------------------------
(* Scoring.  Points are in hundredths of a point (0.02 is 2), so that the  *)
(* arithmetic is on integers; every weight is a whole number of            *)
(* hundredths and toFixed(2) leaves such a value as it is.                 *)

\* SCORING.players, in hundredths.
PlayerWeights ==
  [kill |-> 300, assist |-> 200, death |-> 0 - 100, lastHits |-> 2, denies |-> 2,
   wardsPlaced |-> 20, campsStacked |-> 50,
   winUnder25 |-> 1500, kaOver20 |-> 200, winGame |-> 1500, sweep |-> 3000]

\* SCORING.team, in hundredths.
TeamWeights ==
  [towers |-> 100, barracks |-> 100, roshans |-> 300, firstBlood |-> 200,
   teamWin |-> 200, sweep |-> 1500]

\* String(n) of a non-negative integer id, and toInt of such a string; a
\* string that is no decimal number (the empty string, a team name) parses to 0.
IdString(n) == ToString(n)
KnownIds == 0..9 \cup 100..115
ParseId(str) ==
  IF \E n \in KnownIds : IdString(n) = str
  THEN CHOOSE n \in KnownIds : IdString(n) = str
  ELSE 0
IsDigits(str) == \E n \in KnownIds : IdString(n) = str

\* bitCount(n, bits): the set bits among the low `bits` bits of n >= 0.
RECURSIVE bitCount(_, _)
bitCount(n, bits) ==
  IF bits = 0 THEN 0
  ELSE ((n \div (2 ^ (bits - 1))) % 2) + bitCount(n, bits - 1)

towersDestroyedByRadiant(m) == 11 - bitCount(toInt(m, "tower_status_dire"), 11)
towersDestroyedByDire(m) == 11 - bitCount(toInt(m, "tower_status_radiant"), 11)
barracksDestroyedByRadiant(m) == 6 - bitCount(toInt(m, "barracks_status_dire"), 6)
barracksDestroyedByDire(m) == 6 - bitCount(toInt(m, "barracks_status_radiant"), 6)

\* Sum of f[k] over k in 1..Len(f).
RECURSIVE SumSeq(_)
SumSeq(f) == IF Len(f) = 0 THEN 0 ELSE f[1] + SumSeq(Tail(f))

ObjectivesOf(m) == IF Has(m, "objectives") THEN m.objectives ELSE <<>>
PlayersOf(m) == IF Has(m, "players") THEN m.players ELSE <<>>

\* p.roshans_killed ?? p.roshan_kills ?? 0, through toInt.
RoshanCounter(p) ==
  IF Has(p, "roshans_killed") THEN p.roshans_killed
  ELSE IF Has(p, "roshan_kills") THEN p.roshan_kills ELSE 0

\* roshansByTeam(m): the roshan-kill objective events by side; only when the
\* record has none, the players' counters by side.
roshansByTeam(m) ==
  LET objs == ObjectivesOf(m)
      kills == SelectSeq(objs, LAMBDA o : o.type = "CHAT_MESSAGE_ROSHAN_KILL")
      rad == SelectSeq(kills, LAMBDA o : toInt(o, "player_slot") < 128)
      ps == PlayersOf(m)
      cnt(side) ==
        SumSeq([k \in 1..Len(ps) |->
                  IF RoshanCounter(ps[k]) > 0
                     /\ ((toInt(ps[k], "player_slot") < 128) <=> (side = "radiant"))
                  THEN RoshanCounter(ps[k]) ELSE 0])
  IN  IF Len(kills) > 0
      THEN [radiant |-> Len(rad), dire |-> Len(kills) - Len(rad)]
      ELSE [radiant |-> cnt("radiant"), dire |-> cnt("dire")]

\* firstBloodTeam(m): the side of the first first-blood objective, or "none".
firstBloodTeam(m) ==
  LET fbs == SelectSeq(ObjectivesOf(m), LAMBDA o : o.type = "CHAT_MESSAGE_FIRST_BLOOD")
  IN  IF Len(fbs) = 0 THEN "none"
      ELSE IF toInt(fbs[1], "player_slot") < 128 THEN "radiant" ELSE "dire"

\* summarizePlayers(m).get(id): the last row of the match whose
\* String(account_id) is id, as a sequence of at most one row.  A stored
\* row always has a numeric account_id, so no row is skipped for lacking one.
summarizePlayers(m, id) ==
  LET ps == PlayersOf(m)
      hits == {k \in 1..Len(ps) :
                 Has(ps[k], "account_id") /\ IdString(ps[k].account_id) = id}
  IN  IF hits = {} THEN <<>>
      ELSE LET k == CHOOSE j \in hits : \A i \in hits : i <= j
           IN  <<ps[k]>>

IsRadiantRow(row) == toInt(row, "player_slot") < 128

\* A player score whose win-under-25 bonus is also given at 25 minutes sharp.
scorePlayerInMatchUpTo25(steam32, m) ==
  LET found == summarizePlayers(m, steam32)
  IN  IF Len(found) = 0 THEN 0
      ELSE LET row == found[1]
               isWin == (IsRadiantRow(row) /\ m.radiant_win)
                        \/ (~IsRadiantRow(row) /\ ~m.radiant_win)
           IN  toInt(row, "kills") * PlayerWeights.kill
               + toInt(row, "assists") * PlayerWeights.assist
               + toInt(row, "deaths") * PlayerWeights.death
               + toInt(row, "last_hits") * PlayerWeights.lastHits
               + toInt(row, "denies") * PlayerWeights.denies
               + toInt(row, "obs_placed") * PlayerWeights.wardsPlaced
               + toInt(row, "camps_stacked") * PlayerWeights.campsStacked
               + (IF isWin /\ toInt(m, "duration") <= 25 * 60
                  THEN PlayerWeights.winUnder25 ELSE 0)
               + (IF toInt(row, "kills") + toInt(row, "assists") >= 20
                  THEN PlayerWeights.kaOver20 ELSE 0)
               + (IF isWin THEN PlayerWeights.winGame ELSE 0)

\* scorePlayerInMatch(steam32, m), in hundredths.
scorePlayerInMatch(steam32, m) ==
  LET found == summarizePlayers(m, steam32)
  IN  IF Len(found) = 0 THEN 0
      ELSE LET row == found[1]
               isWin == (IsRadiantRow(row) /\ m.radiant_win)
                        \/ (~IsRadiantRow(row) /\ ~m.radiant_win)
               base == toInt(row, "kills") * PlayerWeights.kill
                       + toInt(row, "assists") * PlayerWeights.assist
                       + toInt(row, "deaths") * PlayerWeights.death
                       + toInt(row, "last_hits") * PlayerWeights.lastHits
                       + toInt(row, "denies") * PlayerWeights.denies
                       + toInt(row, "obs_placed") * PlayerWeights.wardsPlaced
                       + toInt(row, "camps_stacked") * PlayerWeights.campsStacked
           IN  base
               + (IF isWin /\ toInt(m, "duration") < 25 * 60
                  THEN PlayerWeights.winUnder25 ELSE 0)
               + (IF toInt(row, "kills") + toInt(row, "assists") >= 20
                  THEN PlayerWeights.kaOver20 ELSE 0)
               + (IF isWin THEN PlayerWeights.winGame ELSE 0)

\* teamKey(x): trimmed, lower-cased, white space to "_", on the team names
\* and selections of the model; a decimal id is left as it is.
teamKey(str) ==
  CASE str = "A" -> "a"
    [] str = "B" -> "b"
    [] str = " a " -> "a"
    [] OTHER -> str

\* isRadiantForTeam(match, teamSel): "radiant", "dire" or "none" (null).
isRadiantForTeam(match, teamSel) ==
  LET rName == teamKey(IF Has(match, "radiant_name") THEN match.radiant_name ELSE "")
      dName == teamKey(IF Has(match, "dire_name") THEN match.dire_name ELSE "")
      sel == teamKey(teamSel)
  IN  IF teamSel = "" THEN "none"
      ELSE IF IsDigits(teamSel) /\ toInt(match, "radiant_team_id") = ParseId(teamSel)
      THEN "radiant"
      ELSE IF IsDigits(teamSel) /\ toInt(match, "dire_team_id") = ParseId(teamSel)
      THEN "dire"
      ELSE IF rName # "" /\ sel # "" /\ rName = sel THEN "radiant"
      ELSE IF dName # "" /\ sel # "" /\ dName = sel THEN "dire"
      ELSE "none"

\* scoreTeamCardInMatch(teamId, m), in hundredths.
scoreTeamCardInMatch(teamId, m) ==
  LET side == isRadiantForTeam(m, teamId)
      rad == (side = "radiant")
      ros == roshansByTeam(m)
      fb == firstBloodTeam(m)
  IN  IF side = "none" THEN 0
      ELSE (IF rad THEN towersDestroyedByRadiant(m) ELSE towersDestroyedByDire(m))
             * TeamWeights.towers
           + (IF rad THEN barracksDestroyedByRadiant(m) ELSE barracksDestroyedByDire(m))
             * TeamWeights.barracks
           + (IF rad THEN ros.radiant ELSE ros.dire) * TeamWeights.roshans
           + (IF (fb = "radiant" /\ rad) \/ (fb = "dire" /\ ~rad)
              THEN TeamWeights.firstBlood ELSE 0)
           + (IF (rad /\ m.radiant_win) \/ (~rad /\ ~m.radiant_win)
              THEN TeamWeights.teamWin ELSE 0)

\* m.series_id || m.match_id
SeriesKey(m) == IF toInt(m, "series_id") # 0 THEN m.series_id ELSE toInt(m, "match_id")

\* seriesWinsForDay(matches).get(sid): the sides' team ids as the first match
\* of the series has them, and the wins of each side over the series.
seriesWinsForDay(ms, sid) ==
  LET pack == SelectSeq(ms, LAMBDA m : SeriesKey(m) = sid)
      radWins == Len(SelectSeq(pack, LAMBDA m : m.radiant_win))
  IN  [radiant |-> [team_id |-> toInt(pack[1], "radiant_team_id"), wins |-> radWins],
       dire |-> [team_id |-> toInt(pack[1], "dire_team_id"), wins |-> Len(pack) - radWins]]

\* The sweeping team id of a series of the day, 0 when there is none.
SweepTeamId(ms, sid) ==
  LET w == seriesWinsForDay(ms, sid)
  IN  IF w.dire.wins >= 2 /\ w.radiant.wins = 0 THEN w.dire.team_id
      ELSE IF w.radiant.wins >= 2 /\ w.dire.wins = 0 THEN w.radiant.team_id
      ELSE 0

\* [lineup.captain, ...cores, ...supports].map(String)
CaptainOf(L) == IF Has(L, "captain") THEN L.captain ELSE ""
CoresOf(L) == IF Has(L, "cores") THEN L.cores ELSE <<>>
SupportsOf(L) == IF Has(L, "supports") THEN L.supports ELSE <<>>
TeamCardOf(L) == IF Has(L, "teamCard") THEN L.teamCard ELSE ""
RosterIds(L) == <<CaptainOf(L)>> \o CoresOf(L) \o SupportsOf(L)

\* Whether pid has a row, on the side of team `team`, in a game of the series.
PlayedSweep(ms, sid, team, pid) ==
  \E k \in 1..Len(ms) :
     /\ SeriesKey(ms[k]) = sid
     /\ LET found == summarizePlayers(ms[k], pid)
        IN  /\ Len(found) = 1
            /\ (IF IsRadiantRow(found[1]) THEN toInt(ms[k], "radiant_team_id")
                 ELSE toInt(ms[k], "dire_team_id")) = team

SeriesKeys(ms) == {SeriesKey(ms[k]) : k \in 1..Len(ms)}

\* Sum of f[x] over x in DOMAIN f.
RECURSIVE SumFn(_)
SumFn(f) ==
  IF DOMAIN f = {} THEN 0
  ELSE LET x == CHOOSE y \in DOMAIN f : TRUE
       IN  f[x] + SumFn([y \in DOMAIN f \ {x} |-> f[y]])

\* A team sweep bonus added for every game of a swept series.
teamSweepPerGame(L, ms) ==
  LET teamId == IF TeamCardOf(L) # "" THEN ParseId(TeamCardOf(L)) ELSE 0
      one(k) == IF SweepTeamId(ms, SeriesKey(ms[k])) # 0 /\ teamId # 0
                   /\ teamId = SweepTeamId(ms, SeriesKey(ms[k]))
                THEN TeamWeights.sweep ELSE 0
  IN  SumSeq([k \in 1..Len(ms) |-> one(k)])

\* addSweepBonuses(lineup, matches).teamSweep
teamSweepOf(L, ms) ==
  LET teamId == IF TeamCardOf(L) # "" THEN ParseId(TeamCardOf(L)) ELSE 0
      one(sid) == IF SweepTeamId(ms, sid) # 0 /\ teamId # 0
                     /\ teamId = SweepTeamId(ms, sid)
                  THEN TeamWeights.sweep ELSE 0
  IN  SumFn([sid \in SeriesKeys(ms) |-> one(sid)])

\* addSweepBonuses(lineup, matches).playerSweeps.get(pid) || 0 with the
\* player sweep weight `w`: the bonus is added once per swept series for
\* each place pid has in the roster list.
playerSweepsOf(L, ms, pid, w) ==
  LET ids == RosterIds(L)
      places == Cardinality({k \in 1..Len(ids) : ids[k] = pid})
      one(sid) == IF SweepTeamId(ms, sid) # 0
                     /\ PlayedSweep(ms, sid, SweepTeamId(ms, sid), pid)
                  THEN places * w ELSE 0
  IN  SumFn([sid \in SeriesKeys(ms) |-> one(sid)])

----------------------------------------------------------------------------
(* Day aggregator                                                          *)

\* The ascending sequence of a finite set of integers.
RECURSIVE SortedSeq(_)
SortedSeq(S) ==
  IF S = {} THEN <<>>
  ELSE LET x == CHOOSE y \in S : \A z \in S : y <= z
       IN  <<x>> \o SortedSeq(S \ {x})

\* The documents of "matches" for (tid, dateKey), in document-id order (the
\* match ids of the model have one digit, so the order of the id strings is
\* the order of the numbers); with onlyComplete, those stored complete.
QueryMatches(coll, tid, dateKey, onlyComplete) ==
  LET ids == {id \in DOMAIN coll :
                /\ Has(coll[id], "tid") /\ coll[id].tid = tid
                /\ Has(coll[id], "dateKey") /\ coll[id].dateKey = dateKey
                /\ (onlyComplete =>
                      (Has(coll[id], "complete") /\ coll[id].complete))}
      order == SortedSeq(ids)
  IN  [k \in 1..Len(order) |-> coll[order[k]]]

\* The users of the model, in the order of their uid strings.
Uids == <<"u1", "u2", "u3">>
UidRank(uid) == CHOOSE k \in 1..Len(Uids) : Uids[k] = uid

\* A document id without the caller: every lineup of a day goes to the
\* document of the first user.
LineupIdPerDay(fmt, dateKey, uid) == [fmt |-> fmt, dateKey |-> dateKey, uid |-> Uids[1]]

\* A lineup document id: ti2025_<dateKey>_<uid> (fmt "date") as the callables
\* of the main module write it, or ti2025_<uid>_<dateKey> (fmt "uid") as the
\* add-on submitLineup writes it.  In the order of the id strings every
\* "date" id (a digit follows the tid) is before every "uid" id (a letter).
LineupId(fmt, dateKey, uid) == [fmt |-> fmt, dateKey |-> dateKey, uid |-> uid]

LineupIdRank(id) ==
  IF id.fmt = "date"
  THEN (id.dateKey % 100) * 10 + UidRank(id.uid)
  ELSE 10000 + UidRank(id.uid) * 100 + (id.dateKey % 100)

\* A query whose document order changes from one call to the next.
QueryLineupsAnyOrder(coll, tid, dateKey, onlyLocked) ==
  LET ids == {id \in DOMAIN coll :
                /\ coll[id].tid = tid /\ coll[id].dateKey = dateKey
                /\ (onlyLocked => (Has(coll[id], "locked") /\ coll[id].locked))}
      ranks == SortedSeq({LineupIdRank(id) : id \in ids})
      n == Len(ranks)
  IN  [k \in 1..n |->
         coll[CHOOSE id \in ids :
                LineupIdRank(id) = ranks[IF calls % 2 = 0 THEN k ELSE n + 1 - k]]]

\* The documents of "lineups" for (tid, dateKey), in document-id order; with
\* onlyLocked, those stored with locked = true.
QueryLineups(coll, tid, dateKey, onlyLocked) ==
  LET ids == {id \in DOMAIN coll :
                /\ coll[id].tid = tid /\ coll[id].dateKey = dateKey
                /\ (onlyLocked => (Has(coll[id], "locked") /\ coll[id].locked))}
      ranks == SortedSeq({LineupIdRank(id) : id \in ids})
  IN  [k \in 1..Len(ranks) |->
         coll[CHOOSE id \in ids : LineupIdRank(id) = ranks[k]]]

\* resolveTeamPrettyName(teamId): every team card of the model has a named
\* document in "teams".
resolveTeamPrettyName(teamId) == "Team " \o teamId

\* L.ownerUid || L.mid || "unknown"
EntryMid(L) ==
  IF Has(L, "ownerUid") /\ L.ownerUid # "" THEN L.ownerUid
  ELSE IF Has(L, "mid") /\ L.mid # "" THEN L.mid ELSE "unknown"

ManagerNameOf(L) == IF Has(L, "managerName") THEN L.managerName ELSE "null"

\* Sum over the matches of the day of scorePlayerInMatch(pid, m).
PlayerDayPoints(pid, ms) ==
  SumSeq([k \in 1..Len(ms) |-> scorePlayerInMatch(pid, ms[k])])

TeamDayPoints(teamCard, ms) ==
  SumSeq([k \in 1..Len(ms) |-> scoreTeamCardInMatch(teamCard, ms[k])])

\* A captain multiplier of 2.
captainDoubled(capRaw) == capRaw * 2

\* capRaw * SCORING.captainMultiplier (1.5).  Every weight is an even number
\* of hundredths, so the product is a whole number of hundredths.
captainMultiplier(capRaw) == (capRaw * 3) \div 2

\* An entry whose total takes the captain's raw points, not the multiplied
\* points of the captain item.
scoreDayEntryRawTotal(L, ms) ==
  LET cap == CaptainOf(L)
      cores == CoresOf(L)
      sups == SupportsOf(L)
      teamCard == TeamCardOf(L)
      w == PlayerWeights.sweep
      capRaw == PlayerDayPoints(cap, ms) + playerSweepsOf(L, ms, cap, w)
      rest == [i \in 1..Len(cores) |->
                 [role |-> "Core", steam32 |-> cores[i],
                  points |-> PlayerDayPoints(cores[i], ms)
                             + playerSweepsOf(L, ms, cores[i], w)]]
              \o [i \in 1..Len(sups) |->
                    [role |-> "Support", steam32 |-> sups[i],
                     points |-> PlayerDayPoints(sups[i], ms)
                                + playerSweepsOf(L, ms, sups[i], w)]]
              \o (IF teamCard # ""
                  THEN <<[role |-> "Team", teamId |-> teamCard,
                          name |-> resolveTeamPrettyName(teamCard),
                          points |-> TeamDayPoints(teamCard, ms) + teamSweepOf(L, ms)]>>
                  ELSE <<>>)
  IN  [mid |-> EntryMid(L), managerName |-> ManagerNameOf(L),
       totalPoints |-> capRaw + SumSeq([k \in 1..Len(rest) |-> rest[k].points]),
       roster |-> <<[role |-> "Captain", steam32 |-> cap,
                     points |-> captainMultiplier(capRaw)]>> \o rest]

\* One leaderboard entry of scoreDay (main module): the roster breakdown in
\* the order Captain, Cores, Supports, Team and the total of its points.
scoreDayEntry(L, ms) ==
  LET cap == CaptainOf(L)
      cores == CoresOf(L)
      sups == SupportsOf(L)
      teamCard == TeamCardOf(L)
      w == PlayerWeights.sweep
      capRaw == PlayerDayPoints(cap, ms) + playerSweepsOf(L, ms, cap, w)
      capPts == captainMultiplier(capRaw)
      coreItems == [i \in 1..Len(cores) |->
                      [role |-> "Core", steam32 |-> cores[i],
                       points |-> PlayerDayPoints(cores[i], ms)
                                  + playerSweepsOf(L, ms, cores[i], w)]]
      supItems == [i \in 1..Len(sups) |->
                     [role |-> "Support", steam32 |-> sups[i],
                      points |-> PlayerDayPoints(sups[i], ms)
                                 + playerSweepsOf(L, ms, sups[i], w)]]
      teamItems == IF teamCard # ""
                   THEN <<[role |-> "Team", teamId |-> teamCard,
                           name |-> resolveTeamPrettyName(teamCard),
                           points |-> TeamDayPoints(teamCard, ms) + teamSweepOf(L, ms)]>>
                   ELSE <<>>
      roster == <<[role |-> "Captain", steam32 |-> cap, points |-> capPts]>>
                \o coreItems \o supItems \o teamItems
  IN  [mid |-> EntryMid(L), managerName |-> ManagerNameOf(L),
       totalPoints |-> SumSeq([k \in 1..Len(roster) |-> roster[k].points]),
       roster |-> roster]

\* entries.sort((a, b) => b.totalPoints - a.totalPoints): Array.prototype.sort
\* is stable, so equal totals keep their order.  An insertion sort that moves
\* an entry only past strictly smaller totals.
RECURSIVE InsertByTotal(_, _)
InsertByTotal(sorted, e) ==
  IF Len(sorted) = 0 THEN <<e>>
  ELSE IF sorted[Len(sorted)].totalPoints >= e.totalPoints THEN Append(sorted, e)
  ELSE Append(InsertByTotal(SubSeq(sorted, 1, Len(sorted) - 1), e), sorted[Len(sorted)])

RECURSIVE SortByTotalDesc(_)
SortByTotalDesc(es) ==
  IF Len(es) = 0 THEN <<>>
  ELSE InsertByTotal(SortByTotalDesc(SubSeq(es, 1, Len(es) - 1)), es[Len(es)])

\* scoreDay(tid, dateKey) of the main module: the entries it writes.
scoreDayEntries(mcoll, lcoll, tid, dateKey) ==
  LET ms == QueryMatches(mcoll, tid, dateKey, TRUE)
      ls == QueryLineups(lcoll, tid, dateKey, FALSE)
  IN  SortByTotalDesc([k \in 1..Len(ls) |-> scoreDayEntry(ls[k], ms)])

\* A write that replaces the collection by the day's leaderboard.
scoreDayAlone(lbs, mcoll, lcoll, tid, dateKey) ==
  [dk \in {dateKey} |-> [entries |-> scoreDayEntries(mcoll, lcoll, tid, dateKey)]]

\* scoreDay(tid, dateKey) of the main module: the leaderboard collection
\* after its write, set({entries}, {merge: true}) on leaderboards/<tid>_<dateKey>.
scoreDay(lbs, mcoll, lcoll, tid, dateKey) ==
  SetMerge(lbs, dateKey, [entries |-> scoreDayEntries(mcoll, lcoll, tid, dateKey)])

\* SCORING.players.sweep of functions/src/index.ts: 15 points.
IndexPlayerSweep == 1500

\* One leaderboard entry of scoreDay in functions/src/index.ts.
scoreDayIndexEntry(L, ms) ==
  LET cap == CaptainOf(L)
      cores == CoresOf(L)
      sups == SupportsOf(L)
      teamCard == TeamCardOf(L)
      w == IndexPlayerSweep
      capPts == PlayerDayPoints(cap, ms) + playerSweepsOf(L, ms, cap, w)
      corePts == SumSeq([i \in 1..Len(cores) |->
                           PlayerDayPoints(cores[i], ms) + playerSweepsOf(L, ms, cores[i], w)])
      supPts == SumSeq([i \in 1..Len(sups) |->
                          PlayerDayPoints(sups[i], ms) + playerSweepsOf(L, ms, sups[i], w)])
      teamPts == TeamDayPoints(teamCard, ms) + teamSweepOf(L, ms)
  IN  [mid |-> EntryMid(L), managerName |-> ManagerNameOf(L),
       totalPoints |-> captainMultiplier(capPts) + corePts + supPts + teamPts]

\* scoreDay(tid, dateKey) of functions/src/index.ts: every match of the day
\* (complete or not), every lineup of the day, the entries in the order the
\* lineups were read.
scoreDayIndexEntries(mcoll, lcoll, tid, dateKey) ==
  LET ms == QueryMatches(mcoll, tid, dateKey, FALSE)
      ls == QueryLineups(lcoll, tid, dateKey, FALSE)
  IN  [k \in 1..Len(ls) |-> scoreDayIndexEntry(ls[k], ms)]

scoreDayIndex(lbs, mcoll, lcoll, tid, dateKey) ==
  SetMerge(lbs, dateKey, [entries |-> scoreDayIndexEntries(mcoll, lcoll, tid, dateKey)])

----------------------------------------------------------------------------
(* The provider (OpenDota) and the tournament of the poller's world        *)

PollMatchIds == {1, 2, 3}

\* --- Series leagues -----------------------------------------------------
\* Besides leagues 1 and 2 the provider has one league per series outcome:
\* league 100 * seriesType + mask holds one series of type seriesType (1: best
\* of 3, 2: best of 5) played on 6 September between team 7 (radiant in
\* every game) and team 8; bit g - 1 of mask says whether radiant won game g.
\* Game g of league lid is match 10 * lid + g.  A game is played only while
\* neither team has the wins that decide the series.

MaxGames == 4

SeriesDay == 20250906

IsSeriesLeague(lid) == lid >= 100
IsSeriesMatch(id) == id >= 1000
GameOf(id) == id % 10
LeagueOfMatch(id) == id \div 10
SeriesTypeOfLeague(lid) == lid \div 100
MaskOfLeague(lid) == lid % 100
SeriesMatch(lid, g) == 10 * lid + g

RECURSIVE Pow2(_)
Pow2(n) == IF n = 0 THEN 1 ELSE 2 * Pow2(n - 1)

\* Whether radiant won game g of the league's series.
RadiantWonGame(lid, g) == (MaskOfLeague(lid) \div Pow2(g - 1)) % 2 = 1

\* The wins that decide a series: 2 in a best of 3, 3 in a best of 5.
WinsToDecide(seriesType) == IF seriesType = 1 THEN 2 ELSE 3

\* The wins of radiant (side TRUE) or dire (FALSE) over games 1..n.
SideWins(lid, side, n) == Cardinality({g \in 1..n : RadiantWonGame(lid, g) = side})

\* Game g is played: the series is undecided after game g - 1.
GamePlayed(lid, g) ==
  /\ SideWins(lid, TRUE, g - 1) < WinsToDecide(SeriesTypeOfLeague(lid))
  /\ SideWins(lid, FALSE, g - 1) < WinsToDecide(SeriesTypeOfLeague(lid))

\* --- Single-game leagues ------------------------------------------------
\* League 300 + x holds one game of 6 September: radiant wins it when x is
\* even, it lasts 1499, 1500 or 1501 seconds, and in leagues 306 and up the
\* first radiant player has 5 kills, 5 assists and nothing else.
IsStatLeague(lid) == lid >= 300 /\ lid < 400
StatLeagueIds == 300..311
StatRadiantWin(lid) == (lid - 300) % 2 = 0
StatDuration(lid) == 1499 + (((lid - 300) \div 2) % 3)
StatPlainRow(lid) == (lid - 300) \div 6 = 1

\* --- Leagues whose teams change sides ---------------------------------------
\* League 400 + mask holds the first two games of a best of 3 between teams
\* 7 and 8: team 7 is radiant in game 1 and dire in game 2, and bit g - 1 of
\* the mask tells whether radiant won game g.
IsSwapLeague(lid) == lid >= 400
SwapLeagueIds == 400..403
RadiantTeamOf(lid, g) == IF IsSwapLeague(lid) /\ g = 2 THEN 8 ELSE 7

SeriesGames(lid) ==
  IF IsStatLeague(lid) THEN {1}
  ELSE IF IsSwapLeague(lid) THEN {1, 2}
  ELSE {g \in 1..MaxGames : GamePlayed(lid, g)}

\* The series leagues: one per outcome, the bits of games not played clear.
SeriesLeagues ==
  {100 * ty + mask : ty \in {1, 2}, mask \in 0..(Pow2(MaxGames) - 1)}
SeriesLeagueIds ==
  {lid \in SeriesLeagues :
     \A g \in 1..MaxGames : RadiantWonGame(lid, g) => g \in SeriesGames(lid)}

\* The start time the provider reports for a match, in its league list and
\* in its detail.
StartOf(id) ==
  CASE IsSeriesMatch(id) -> DateUTC(2025, 8, 6, 10) + (GameOf(id) - 1) * SecondsPerHour
    [] id = 1 -> DateUTC(2025, 8, 4, 10)
    [] id = 2 -> DateUTC(2025, 8, 4, 10) + 5 * 60
    [] OTHER  -> DateUTC(2025, 8, 5, 10)

\* The matches the provider lists for a league; match 2 is listed by both.
LeagueContent(lid) ==
  IF IsSeriesLeague(lid) THEN {SeriesMatch(lid, g) : g \in SeriesGames(lid)}
  ELSE IF lid = 1 THEN {1, 2} ELSE {2, 3}

\* The instants the poller's clock takes.
PollClock ==
  {DateUTC(2025, 8, 4, 10) + 12 * 60,
   DateUTC(2025, 8, 4, 10) + 15 * 60,
   DateUTC(2025, 8, 4, 10) + 20 * 60,
   DateUTC(2025, 8, 5, 10) + 30 * 60}

\* fetchLeagueMatches(lid): the rows of the league's matches that have
\* started, in the provider's (match id) order.
LeagueRows(lid, t) ==
  LET ids == SortedSeq({id \in LeagueContent(lid) : StartOf(id) <= t})
  IN  [k \in 1..Len(ids) |-> [match_id |-> ids[k], start_time |-> StartOf(ids[k])]]

\* fetchMatchDetail(id): the final detail once the provider has it, a
\* half-written one (9 player rows, no duration yet) before.
\* The detail of a game of a series league: the series id is the league's
\* number, and the winner is the one the league's outcome gives to the game.
SeriesDetail(m, id) ==
  LET won == RadiantWonGame(LeagueOfMatch(id), GameOf(id))
  IN  [m EXCEPT !.series_id = LeagueOfMatch(id),
                !.series_type = SeriesTypeOfLeague(LeagueOfMatch(id)),
                !.radiant_win = won,
                !.players = [i \in DOMAIN m.players |->
                               [m.players[i] EXCEPT !.win = (m.players[i].isRadiant = won)]]]

\* The detail of the game of a single-game league.
StatDetail(m, id) ==
  LET lid == LeagueOfMatch(id)
      won == StatRadiantWin(lid)
      row(i) == IF i = 1 /\ StatPlainRow(lid)
                THEN [m.players[i] EXCEPT !.kills = 5, !.assists = 5, !.deaths = 0,
                                          !.last_hits = 0, !.denies = 0,
                                          !.obs_placed = 0, !.camps_stacked = 0]
                ELSE m.players[i]
  IN  [m EXCEPT !.series_id = lid,
                !.radiant_win = won,
                !.duration = StatDuration(lid),
                !.players = [i \in DOMAIN m.players |->
                               [row(i) EXCEPT !.win = (m.players[i].isRadiant = won)]]]

\* The detail of a game of a league whose teams change sides: in game 2 the
\* radiant team is team 8, and the players of team 8 (106..110) hold the
\* radiant rows.
SwapDetail(m, id) ==
  LET lid == LeagueOfMatch(id)
      won == RadiantWonGame(lid, GameOf(id))
      swapped == RadiantTeamOf(lid, GameOf(id)) = 8
      teamA == m.radiant_team
      teamB == m.dire_team
      row(i) == IF swapped
                THEN [m.players[i] EXCEPT !.account_id = IF i <= 5 THEN 105 + i ELSE 95 + i]
                ELSE m.players[i]
  IN  [m EXCEPT !.series_id = lid,
                !.series_type = 1,
                !.radiant_win = won,
                !.radiant_team_id = IF swapped THEN 8 ELSE 7,
                !.dire_team_id = IF swapped THEN 7 ELSE 8,
                !.radiant_team = IF swapped THEN teamB ELSE teamA,
                !.dire_team = IF swapped THEN teamA ELSE teamB,
                !.radiant_name = IF swapped THEN "B" ELSE "A",
                !.dire_name = IF swapped THEN "A" ELSE "B",
                !.players = [i \in DOMAIN m.players |->
                               [row(i) EXCEPT !.win = (m.players[i].isRadiant = won)]]]

FinalDetail(id) ==
  LET m == RawMatch(id, StartOf(id), RawRows(10), 1800, <<FirstBloodEvent, OtherEvent>>)
  IN  IF ~IsSeriesMatch(id) THEN m
      ELSE IF IsStatLeague(LeagueOfMatch(id)) THEN StatDetail(m, id)
      ELSE IF IsSwapLeague(LeagueOfMatch(id)) THEN SwapDetail(m, id)
      ELSE SeriesDetail(m, id)
PartialDetail(id) ==
  Without(RawMatch(id, StartOf(id), RawRows(9), 0, <<FirstBloodEvent>>), {"duration"})
MatchDetail(id, done) == IF id \in done THEN FinalDetail(id) ELSE PartialDetail(id)

\* list.sort((a, b) => toInt(b.start_time) - toInt(a.start_time)): newest
\* first, stable.
RECURSIVE InsertByStart(_, _)
InsertByStart(sorted, r) ==
  IF Len(sorted) = 0 THEN <<r>>
  ELSE IF toInt(sorted[Len(sorted)], "start_time") >= toInt(r, "start_time")
  THEN Append(sorted, r)
  ELSE Append(InsertByStart(SubSeq(sorted, 1, Len(sorted) - 1), r), sorted[Len(sorted)])

RECURSIVE SortNewestFirst(_)
SortNewestFirst(rows) ==
  IF Len(rows) = 0 THEN <<>>
  ELSE InsertByStart(SortNewestFirst(SubSeq(rows, 1, Len(rows) - 1)), rows[Len(rows)])

----------------------------------------------------------------------------
(* pollOpenDota: one invocation p, a step per await                        *)

MaxRuns == 2

Pollers == {1, 2}

\* The row the invocation is at.
CurRow(p) == list[p][ridx[p]]
CurId(p) == toInt(CurRow(p), "match_id")

\* The invocation starts: it reads the tournament; without leagues it ends.
PollStart(p) ==
  /\ pc[p] = "idle"
  /\ runs[p] < MaxRuns
  /\ runs' = [runs EXCEPT ![p] = @ + 1]
  /\ pc' = [pc EXCEPT ![p] = IF Len(getTournament(tournament).leagueIds) = 0 THEN "done" ELSE "league"]
  /\ lidx' = [lidx EXCEPT ![p] = 1]
  /\ list' = [list EXCEPT ![p] = <<>>]
  /\ ridx' = [ridx EXCEPT ![p] = 1]
  /\ snap' = [snap EXCEPT ![p] = <<>>]
  /\ det' = [det EXCEPT ![p] = <<>>]
  /\ completedDates' = [completedDates EXCEPT ![p] = <<>>]
  /\ sidx' = [sidx EXCEPT ![p] = 1]
  /\ scoreLog' = [scoreLog EXCEPT ![p] = <<>>]
  /\ gained' = [gained EXCEPT ![p] = {}]
  /\ wrote' = [wrote EXCEPT ![p] = {}]
  /\ UNCHANGED <<now, storeVars, matches, lineups, leaderboards, providerDone, callVars>>

\* The next league: its list is fetched and sorted, or the fetch fails and
\* the league is skipped; after the last league the final loop starts.
PollLeague(p) ==
  /\ pc[p] = "league"
  /\ IF lidx[p] > Len(getTournament(tournament).leagueIds)
     THEN /\ pc' = [pc EXCEPT ![p] = "score"]
          /\ UNCHANGED <<lidx, list, ridx>>
     ELSE \/ /\ list' = [list EXCEPT ![p] = SortNewestFirst(
                  LeagueRows(getTournament(tournament).leagueIds[lidx[p]], now))]
             /\ ridx' = [ridx EXCEPT ![p] = 1]
             /\ pc' = [pc EXCEPT ![p] = "row"]
             /\ UNCHANGED lidx
          \/ /\ lidx' = [lidx EXCEPT ![p] = @ + 1]
             /\ UNCHANGED <<pc, list, ridx>>
  /\ UNCHANGED <<now, storeVars, matches, lineups, leaderboards, providerDone,
                 snap, det, completedDates, sidx, scoreLog, gained, wrote, runs, callVars>>

\* A freshness guard without the test for a complete cached record.
SkipsRowByAgeOnly(row, cached, t) ==
  IF Len(cached) = 1
  THEN t - (IF toInt(cached[1], "start_time") # 0
            THEN cached[1].start_time ELSE toInt(row, "start_time")) < 15 * 60
  ELSE t - toInt(row, "start_time") < 10 * 60

\* A freshness guard that waits 10 minutes whether or not a record is cached.
SkipsRowTenMinutes(row, cached, t) ==
  IF Len(cached) = 1
  THEN LET existing == cached[1]
           startSec == IF toInt(existing, "start_time") # 0
                       THEN existing.start_time ELSE toInt(row, "start_time")
       IN  \/ (Has(existing, "complete") /\ existing.complete)
           \/ looksComplete(existing)
           \/ t - startSec < 10 * 60
  ELSE t - toInt(row, "start_time") < 10 * 60

\* A freshness guard that never fetches a match again once a record of it
\* is cached.
SkipsRowOnceCached(row, cached, t) ==
  IF Len(cached) = 1 THEN TRUE
  ELSE t - toInt(row, "start_time") < 10 * 60

\* The freshness guard on the row's cached record `cached` (<<>> or <<doc>>):
\* TRUE when the row is skipped without a fetch.
SkipsRow(row, cached, t) ==
  IF Len(cached) = 1
  THEN LET existing == cached[1]
           startSec == IF toInt(existing, "start_time") # 0
                       THEN existing.start_time ELSE toInt(row, "start_time")
       IN  \/ (Has(existing, "complete") /\ existing.complete)
           \/ looksComplete(existing)
           \/ t - startSec < 15 * 60
  ELSE t - toInt(row, "start_time") < 10 * 60

\* The next row: the cached record is read and the freshness guard decides
\* between skipping the row and fetching its detail; after the last row the
\* next league follows.
PollExamine(p) ==
  /\ pc[p] = "row"
  /\ IF ridx[p] > Len(list[p])
     THEN /\ lidx' = [lidx EXCEPT ![p] = @ + 1]
          /\ pc' = [pc EXCEPT ![p] = "league"]
          /\ UNCHANGED <<ridx, snap>>
     ELSE LET id == CurId(p)
              cached == IF id \in DOMAIN matches THEN <<matches[id]>> ELSE <<>>
          IN  IF id = 0 \/ SkipsRow(CurRow(p), cached, now)
              THEN /\ ridx' = [ridx EXCEPT ![p] = @ + 1]
                   /\ UNCHANGED <<pc, lidx, snap>>
              ELSE /\ snap' = [snap EXCEPT ![p] = cached]
                   /\ pc' = [pc EXCEPT ![p] = "fetch"]
                   /\ UNCHANGED <<lidx, ridx>>
  /\ UNCHANGED <<now, storeVars, matches, lineups, leaderboards, providerDone,
                 list, det, completedDates, sidx, scoreLog, gained, wrote, runs, callVars>>

\* A detail fetch whose failure is not caught: it ends the row loops.
PollFetchAborting(p) ==
  /\ pc[p] = "fetch"
  /\ \/ /\ det' = [det EXCEPT ![p] = <<MatchDetail(CurId(p), providerDone)>>]
        /\ pc' = [pc EXCEPT ![p] = "upsert"]
     \/ /\ pc' = [pc EXCEPT ![p] = "score"]
        /\ UNCHANGED det
  /\ UNCHANGED <<now, storeVars, matches, lineups, leaderboards, providerDone,
                 lidx, list, ridx, snap, completedDates, sidx, scoreLog, gained, wrote,
                 runs, callVars>>

\* After the throttle the detail is fetched; a failed fetch is logged and the
\* row is left.
PollFetch(p) ==
  /\ pc[p] = "fetch"
  /\ \/ /\ det' = [det EXCEPT ![p] = <<MatchDetail(CurId(p), providerDone)>>]
        /\ pc' = [pc EXCEPT ![p] = "upsert"]
        /\ UNCHANGED ridx
     \/ /\ ridx' = [ridx EXCEPT ![p] = @ + 1]
        /\ pc' = [pc EXCEPT ![p] = "row"]
        /\ UNCHANGED det
  /\ UNCHANGED <<now, storeVars, matches, lineups, leaderboards, providerDone,
                 lidx, list, snap, completedDates, sidx, scoreLog, gained, wrote,
                 runs, callVars>>

\* A list in place of the Set: push without the membership test.
SetAddAlways(seq, x) == Append(seq, x)

\* set.add(dateKey) on an insertion-ordered Set.
SetAdd(seq, x) == IF \E k \in 1..Len(seq) : seq[k] = x THEN seq ELSE Append(seq, x)

\* Whether the invocation records the day of its upsert as newly completed:
\* the upsert's payload is complete and the snapshot read before the fetch
\* was not.
RecordsDay(doc, snapshot) ==
  LET beforeComplete == Len(snapshot) = 1 /\ Has(snapshot[1], "complete")
                        /\ snapshot[1].complete
  IN  doc.complete /\ ~beforeComplete

\* The fetched detail is upserted and, if that made the record complete, its
\* day is recorded for the final loop.
PollUpsert(p) ==
  /\ pc[p] = "upsert"
  /\ LET doc == toSlimMatch(TID, det[p][1])
         wasComplete == doc.match_id \in DOMAIN matches
                        /\ Has(matches[doc.match_id], "complete")
                        /\ matches[doc.match_id].complete
     IN  /\ matches' = upsertMatchDoc(matches, TID, det[p][1])
         /\ completedDates' = [completedDates EXCEPT ![p] =
                IF RecordsDay(doc, snap[p]) THEN SetAdd(@, doc.dateKey) ELSE @]
         /\ gained' = [gained EXCEPT ![p] =
                IF doc.complete /\ ~wasComplete THEN @ \cup {doc.dateKey} ELSE @]
         /\ wrote' = [wrote EXCEPT ![p] =
                IF doc.complete THEN @ \cup {doc.match_id} ELSE @]
  /\ ridx' = [ridx EXCEPT ![p] = @ + 1]
  /\ pc' = [pc EXCEPT ![p] = "row"]
  /\ UNCHANGED <<now, storeVars, lineups, leaderboards, providerDone,
                 lidx, list, snap, det, sidx, scoreLog, runs, callVars>>

\* A final loop without the try/catch: a failure of scoreDay ends it.
PollScoreAborting(p) ==
  /\ pc[p] = "score"
  /\ IF sidx[p] > Len(completedDates[p])
     THEN /\ pc' = [pc EXCEPT ![p] = "done"]
          /\ UNCHANGED <<sidx, scoreLog, leaderboards>>
     ELSE /\ sidx' = [sidx EXCEPT ![p] = @ + 1]
          /\ scoreLog' = [scoreLog EXCEPT ![p] = Append(@, completedDates[p][sidx[p]])]
          /\ \/ /\ leaderboards' = scoreDay(leaderboards, matches, lineups, TID,
                                            completedDates[p][sidx[p]])
                /\ UNCHANGED pc
             \/ /\ UNCHANGED leaderboards
                /\ pc' = [pc EXCEPT ![p] = "done"]
  /\ UNCHANGED <<now, storeVars, matches, lineups, providerDone,
                 lidx, list, ridx, snap, det, completedDates, gained, wrote, runs, callVars>>

\* The final loop: scoreDay for the next recorded day; a failure of scoreDay
\* is logged and the loop goes on.
PollScore(p) ==
  /\ pc[p] = "score"
  /\ IF sidx[p] > Len(completedDates[p])
     THEN /\ pc' = [pc EXCEPT ![p] = "done"]
          /\ UNCHANGED <<sidx, scoreLog, leaderboards>>
     ELSE /\ sidx' = [sidx EXCEPT ![p] = @ + 1]
          /\ scoreLog' = [scoreLog EXCEPT ![p] = Append(@, completedDates[p][sidx[p]])]
          /\ \/ leaderboards' = scoreDay(leaderboards, matches, lineups, TID,
                                         completedDates[p][sidx[p]])
             \/ UNCHANGED leaderboards
          /\ UNCHANGED pc
  /\ UNCHANGED <<now, storeVars, matches, lineups, providerDone,
                 lidx, list, ridx, snap, det, completedDates, gained, wrote, runs, callVars>>

\* The scheduler starts the next invocation after the last one ended.
PollEnd(p) ==
  /\ pc[p] = "done"
  /\ pc' = [pc EXCEPT ![p] = "idle"]
  /\ UNCHANGED <<now, storeVars, matches, lineups, leaderboards, providerDone,
                 lidx, list, ridx, snap, det, completedDates, sidx, scoreLog, gained,
                 wrote, runs, callVars>>

\* The provider finishes writing the detail of a match that has started.
ProviderFinish ==
  /\ \E id \in PollMatchIds \ providerDone :
        /\ StartOf(id) <= now
        /\ providerDone' = providerDone \cup {id}
  /\ UNCHANGED <<now, storeVars, matches, lineups, leaderboards, pollVars, callVars>>

\* Time passes.
PollTick ==
  /\ \E t \in PollClock : t > now /\ now' = t
  /\ UNCHANGED <<storeVars, matches, lineups, leaderboards, providerDone, pollVars,
                 callVars>>

----------------------------------------------------------------------------
(* Lineup callables and the hourly lock                                    *)

\* /^\d{8}$/.test(String(dateKey || "")) on the keys of the model, which are
\* numbers; 0 stands for a missing key.
IsDateKey(dk) == dk >= 10000000 /\ dk <= 99999999

\* The request data of the model: 3 cores and 2 supports, or one core short.
RosterA == [captain |-> "101", cores |-> <<"102", "103", "106">>,
            supports |-> <<"104", "107">>, teamCard |-> "7"]
RosterB == [captain |-> "106", cores |-> <<"107", "108", "101">>,
            supports |-> <<"109", "102">>, teamCard |-> "8"]
RosterShort == [captain |-> "102", cores |-> <<"101", "106">>,
                supports |-> <<"104", "107">>, teamCard |-> ""]

ManagerName(uid) == "Mgr " \o uid

\* The outcome of submitLineup (main module) at instant t: an HttpsError
\* code, or "ok" when the lineup is written.
submitLineupResult(auth, dk, t, tdoc) ==
  IF auth = "none" THEN "unauthenticated"
  ELSE IF ~IsDateKey(dk) THEN "invalid-argument"
  ELSE IF t >= lockTimestamp(dk, getTournament(tdoc).lockHourUTC) THEN "failed-precondition"
  ELSE "ok"

\* The document submitLineup (main module) writes.
submitLineupPayload(uid, dk, r) ==
  [tid |-> TID, dateKey |-> dk, ownerUid |-> uid, mid |-> uid,
   managerName |-> ManagerName(uid),
   captain |-> r.captain, cores |-> r.cores, supports |-> r.supports,
   teamCard |-> r.teamCard, locked |-> FALSE]

\* submitLineup of the main module.
submitLineup(auth, dk, r) ==
  LET res == submitLineupResult(auth, dk, now, tournament)
  IN  /\ lineups' = IF res = "ok"
                    THEN SetMerge(lineups, LineupId("date", dk, auth),
                                  submitLineupPayload(auth, dk, r))
                    ELSE lineups
      /\ lastCall' = [op |-> "submitLineup", uid |-> auth, dateKey |-> dk,
                      roster |-> r, at |-> now, result |-> res]
      /\ calls' = calls + 1
      /\ UNCHANGED <<now, storeVars, matches, leaderboards, providerDone, pollVars, locks>>

\* new Date(t).getUTCHours()
getUTCHours(t) == (t % SecondsPerDay) \div SecondsPerHour

\* cfg.roles ?? { cores: 3, supports: 2, maxFromOneOrg: 4 }
RolesOf(tdoc) == IF Has(tdoc, "roles") THEN tdoc.roles ELSE [cores |-> 3, supports |-> 2]

\* cfg.lockHourUTC ?? 12
AddOnLockHour(tdoc) == IF Has(tdoc, "lockHourUTC") THEN tdoc.lockHourUTC ELSE 12

\* The outcome of the add-on submitLineup: the message of the Error it
\* throws, or "ok" when the lineup is written.  The captain of a request is
\* a decimal string where the request has the number.
submitLineupAddOnResult(auth, dk, r, tdoc) ==
  IF auth = "none" THEN "auth required"
  ELSE IF dk = 0 THEN "tid & dateKey required"
  ELSE IF ~IsDigits(r.captain) THEN "captain steam32 required"
  ELSE IF Len(r.cores) # RolesOf(tdoc).cores THEN "need cores"
  ELSE IF Len(r.supports) # RolesOf(tdoc).supports THEN "need supports"
  ELSE "ok"

\* The add-on submitLineup: it writes whatever the hour, with
\* locked = (current UTC hour >= lock hour).
submitLineupAddOn(auth, dk, r) ==
  LET res == submitLineupAddOnResult(auth, dk, r, tournament)
      locked == getUTCHours(now) >= AddOnLockHour(tournament)
  IN  /\ lineups' = IF res = "ok"
                    THEN SetMerge(lineups, LineupId("uid", dk, auth),
                                  [tid |-> TID, dateKey |-> dk, mid |-> auth,
                                   captain |-> r.captain, cores |-> r.cores,
                                   supports |-> r.supports, teamCard |-> r.teamCard,
                                   locked |-> locked])
                    ELSE lineups
      /\ lastCall' = [op |-> "submitLineupAddOn", uid |-> auth, dateKey |-> dk,
                      roster |-> r, at |-> now, result |-> res]
      /\ calls' = calls + 1
      /\ UNCHANGED <<now, storeVars, matches, leaderboards, providerDone, pollVars, locks>>

\* An outcome that tests the arguments before the caller.
adminSetLineupResultArgsFirst(isAdmin, uid, dk, overrideLock, t, tdoc) ==
  IF ~IsDateKey(dk) \/ uid = "" THEN "invalid-argument"
  ELSE IF ~isAdmin THEN "permission-denied"
  ELSE IF t >= lockTimestamp(dk, getTournament(tdoc).lockHourUTC) /\ ~overrideLock
  THEN "failed-precondition"
  ELSE "ok"

\* The outcome of adminSetLineup at instant t.
adminSetLineupResult(isAdmin, uid, dk, overrideLock, t, tdoc) ==
  IF ~isAdmin THEN "permission-denied"
  ELSE IF ~IsDateKey(dk) \/ uid = "" THEN "invalid-argument"
  ELSE IF t >= lockTimestamp(dk, getTournament(tdoc).lockHourUTC) /\ ~overrideLock
  THEN "failed-precondition"
  ELSE "ok"

\* adminSetLineup: the lineup is written with locked = nowLocked.
adminSetLineup(isAdmin, uid, dk, r, overrideLock) ==
  LET res == adminSetLineupResult(isAdmin, uid, dk, overrideLock, now, tournament)
      nowLocked == now >= lockTimestamp(dk, getTournament(tournament).lockHourUTC)
  IN  /\ lineups' = IF res = "ok"
                    THEN SetMerge(lineups, LineupId("date", dk, uid),
                                  [tid |-> TID, dateKey |-> dk, ownerUid |-> uid,
                                   mid |-> uid, captain |-> r.captain, cores |-> r.cores,
                                   supports |-> r.supports, teamCard |-> r.teamCard,
                                   locked |-> nowLocked])
                    ELSE lineups
      /\ lastCall' = [op |-> "adminSetLineup", uid |-> uid, dateKey |-> dk,
                      roster |-> r, at |-> now, result |-> res]
      /\ calls' = calls + 1
      /\ UNCHANGED <<now, storeVars, matches, leaderboards, providerDone, pollVars, locks>>

\* Days of September 2025 the hourly lock acts on.
ACTIVE_DAYS_ET == {4, 5, 6, 7, 11, 12, 13, 14}

\* computeLockUTC(dateKey): 11:00:00 UTC on the day of the key.
computeLockUTC(dateKey) ==
  DateUTC(dateKey \div 10000, ((dateKey \div 100) % 100) - 1, dateKey % 100, 11)

\* todayDateKeyET(now): the key of the day four hours before now.
todayDateKeyET(t) == yyyymmddFromUTC(t - 4 * SecondsPerHour)

isActiveDay(dateKey) ==
  /\ dateKey \div 10000 = 2025
  /\ (dateKey \div 100) % 100 = 9
  /\ (dateKey % 100) \in ACTIVE_DAYS_ET

\* lockLineupsHourly, run at the top of an hour: once 11:00 UTC of the
\* Eastern day has passed, every lineup of that day stored with
\* locked = false is set locked, and the day's marker is written.
lockLineupsHourly ==
  LET dk == todayDateKeyET(now)
      acts == isActiveDay(dk) /\ now >= computeLockUTC(dk)
      hit == {id \in DOMAIN lineups :
                /\ lineups[id].tid = TID /\ lineups[id].dateKey = dk
                /\ Has(lineups[id], "locked") /\ ~lineups[id].locked}
  IN  /\ now % SecondsPerHour = 0
      /\ lineups' = IF acts
                    THEN [id \in DOMAIN lineups |->
                            IF id \in hit
                            THEN MergeFields(lineups[id], [locked |-> TRUE])
                            ELSE lineups[id]]
                    ELSE lineups
      /\ locks' = IF acts THEN locks \cup {dk} ELSE locks
      /\ lastCall' = [op |-> "lockLineupsHourly", uid |-> "none", dateKey |-> dk,
                      roster |-> RosterA, at |-> now,
                      result |-> IF acts THEN "ok" ELSE "skipped"]
      /\ calls' = calls + 1
      /\ UNCHANGED <<now, storeVars, matches, leaderboards, providerDone, pollVars>>

----------------------------------------------------------------------------
(* The stand-alone day scorer (functions/src/firebaseAdmin.ts with         *)
(* scoring.ts): it reads the provider itself and keeps per-match and       *)
(* per-manager score documents.  Points are in hundredths.                 *)

\* scorePlayerMatch(p, durationSeconds) on a raw player row and the detail.
scorePlayerMatch(p, d) ==
  LET wards == toInt(p, "obs_placed") + toInt(p, "sen_placed")
      win == Has(p, "win") /\ p.win
  IN  toInt(p, "kills") * 300 + toInt(p, "assists") * 200 - toInt(p, "deaths") * 100
      + toInt(p, "last_hits") * 2 + toInt(p, "denies") * 2
      + wards * 20 + toInt(p, "camps_stacked") * 50
      + (IF win THEN 1500 ELSE 0)
      + (IF win /\ Has(d, "duration") /\ d.duration < 25 * 60 THEN 1500 ELSE 0)
      + (IF toInt(p, "kills") + toInt(p, "assists") > 20 THEN 200 ELSE 0)

\* popcount(n): the set bits of n >= 0.
RECURSIVE popcount(_)
popcount(n) == IF n = 0 THEN 0 ELSE (n % 2) + popcount(n \div 2)

\* towersDestroyedBy / raxDestroyedBy: 11 (6) minus the bits of the side's
\* own status word.
towersDestroyedBy(side, d) ==
  11 - popcount(IF side = "radiant" THEN toInt(d, "tower_status_radiant")
                ELSE toInt(d, "tower_status_dire"))
raxDestroyedBy(side, d) ==
  6 - popcount(IF side = "radiant" THEN toInt(d, "barracks_status_radiant")
               ELSE toInt(d, "barracks_status_dire"))

SideCode(side) == IF side = "radiant" THEN 2 ELSE 3

roshansForSide(objectives, side) ==
  Cardinality({k \in 1..Len(objectives) :
                 /\ objectives[k].type = "CHAT_MESSAGE_ROSHAN_KILL"
                 /\ toInt(objectives[k], "team") = SideCode(side)})

firstBloodForSide(objectives, side) ==
  \E k \in 1..Len(objectives) :
     /\ objectives[k].type = "CHAT_MESSAGE_FIRSTBLOOD"
     /\ toInt(objectives[k], "team") = SideCode(side)

scoreTeamMatch(side, d) ==
  LET radiantWin == Has(d, "radiant_win") /\ d.radiant_win
      teamWon == (side = "radiant" /\ radiantWin) \/ (side = "dire" /\ ~radiantWin)
  IN  towersDestroyedBy(side, d) * 100 + raxDestroyedBy(side, d) * 100
      + roshansForSide(ObjectivesOf(d), side) * 300
      + (IF firstBloodForSide(ObjectivesOf(d), side) THEN 200 ELSE 0)
      + (IF teamWon THEN 200 ELSE 0)

\* sweepBonus(seriesType, radiantWins, direWins)
sweepBonus(seriesType, radiantWins, direWins) ==
  LET bo3 == seriesType = 1 /\ (radiantWins = 2 \/ direWins = 2)
      bo5 == seriesType = 2 /\ (radiantWins = 3 \/ direWins = 3)
  IN  [radiant |-> (IF bo3 /\ radiantWins = 2 THEN 1500 ELSE 0)
                   + (IF bo5 /\ radiantWins = 3 THEN 1500 ELSE 0),
       dire |-> (IF bo3 /\ radiantWins # 2 THEN 1500 ELSE 0)
                + (IF bo5 /\ radiantWins # 3 THEN 1500 ELSE 0)]

\* applyCaptainDailyMultiplier(n) = n * 1.5; n is an even number of hundredths.
applyCaptainDailyMultiplier(n) == (n * 3) \div 2

\* dayRangeUTC(dateKey): 00:00:00 and 23:59:59 of the day.
dayRangeUTC(dateKey) ==
  LET y == dateKey \div 10000
      m == ((dateKey \div 100) % 100) - 1
      d == dateKey % 100
  IN  [start |-> DateUTC(y, m, d, 0), end |-> DateUTC(y, m, d, 23) + 59 * 60 + 59]

\* leagueMatchesForDay(leagueId, dateKey): the league's rows that start in the day.
leagueMatchesForDay(lid, dateKey, t) ==
  SelectSeq(LeagueRows(lid, t),
            LAMBDA r : /\ r.start_time >= dayRangeUTC(dateKey).start
                       /\ r.start_time <= dayRangeUTC(dateKey).end)

RECURSIVE FlatRows(_, _, _)
FlatRows(leagueIds, dateKey, t) ==
  IF Len(leagueIds) = 0 THEN <<>>
  ELSE leagueMatchesForDay(leagueIds[1], dateKey, t) \o FlatRows(Tail(leagueIds), dateKey, t)

\* mapTeamToOrg(team): "orgs" holds a document for every team of the model,
\* with the team id as its id and the team's name; nothing is created.
mapTeamToOrg(team) == [orgId |-> ToString(team.team_id), orgName |-> team.name]

\* The match details scoreDay fetches, one per row of the day (a match
\* listed by two leagues is fetched and counted twice).
DayDetails(tdoc, dateKey, t, done) ==
  LET all == FlatRows(getTournament(tdoc).leagueIds, dateKey, t)
  IN  [k \in 1..Len(all) |-> MatchDetail(all[k].match_id, done)]

\* set(data, {merge: true}) of every document of `docs` on a collection.
SetMergeAll(coll, docs) ==
  [key \in DOMAIN coll \cup DOMAIN docs |->
     IF key \in DOMAIN docs
     THEN (IF key \in DOMAIN coll THEN MergeFields(coll[key], docs[key]) ELSE docs[key])
     ELSE coll[key]]

\* The scores_player documents written for the details: one per match and
\* player row with an account id.
PlayerScoreDocs(dets, dateKey) ==
  LET rowsOf(k) == {i \in 1..Len(PlayersOf(dets[k])) :
                      toInt(PlayersOf(dets[k])[i], "account_id") # 0}
      keys == UNION {{<<dets[k].match_id, PlayersOf(dets[k])[i].account_id>> :
                        i \in rowsOf(k)} : k \in 1..Len(dets)}
      docOf(key) ==
        LET k == CHOOSE j \in 1..Len(dets) : dets[j].match_id = key[1]
            i == CHOOSE j \in rowsOf(k) : PlayersOf(dets[k])[j].account_id = key[2]
            p == PlayersOf(dets[k])[i]
            side == IF Has(p, "isRadiant") /\ p.isRadiant THEN "radiant" ELSE "dire"
        IN  [tid |-> TID, dateKey |-> dateKey, matchId |-> key[1], steam32 |-> key[2],
             name |-> p.name,
             orgName |-> IF side = "radiant" THEN mapTeamToOrg(dets[k].radiant_team).orgName
                         ELSE mapTeamToOrg(dets[k].dire_team).orgName,
             points |-> scorePlayerMatch(p, dets[k])]
  IN  [key \in keys |-> docOf(key)]

\* The scores_team documents written per match: one for each side's org.
TeamScoreDocs(dets, dateKey) ==
  LET keys == UNION {{<<"match", dets[k].match_id, mapTeamToOrg(dets[k].radiant_team).orgId>>,
                      <<"match", dets[k].match_id, mapTeamToOrg(dets[k].dire_team).orgId>>} :
                        k \in 1..Len(dets)}
      docOf(key) ==
        LET k == CHOOSE j \in 1..Len(dets) : dets[j].match_id = key[2]
            side == IF mapTeamToOrg(dets[k].dire_team).orgId = key[3]
                    THEN "dire" ELSE "radiant"
            org == IF side = "dire" THEN mapTeamToOrg(dets[k].dire_team)
                   ELSE mapTeamToOrg(dets[k].radiant_team)
        IN  [tid |-> TID, dateKey |-> dateKey, matchId |-> key[2], orgId |-> org.orgId,
             orgName |-> org.orgName, points |-> scoreTeamMatch(side, dets[k])]
  IN  [key \in keys |-> docOf(key)]

\* The series buckets: per series id the series type and orgs of its first
\* detail and the wins counted over the details.
SeriesBucket(dets, sid) ==
  LET ks == {k \in 1..Len(dets) : dets[k].series_id = sid}
      first == CHOOSE k \in ks : \A j \in ks : k <= j
  IN  [series_type |-> toInt(dets[first], "series_type"),
       radiantWins |-> Cardinality({k \in ks : Has(dets[k], "radiant_win") /\ dets[k].radiant_win}),
       direWins |-> Cardinality({k \in ks : ~(Has(dets[k], "radiant_win") /\ dets[k].radiant_win)}),
       radiantOrgId |-> mapTeamToOrg(dets[first].radiant_team).orgId,
       direOrgId |-> mapTeamToOrg(dets[first].dire_team).orgId]

\* The sweep rows written to scores_team: one for the side with a bonus.
SweepScoreDocs(dets, dateKey) ==
  LET sids == {dets[k].series_id : k \in 1..Len(dets)}
      bonus(sid) == sweepBonus(SeriesBucket(dets, sid).series_type,
                               SeriesBucket(dets, sid).radiantWins,
                               SeriesBucket(dets, sid).direWins)
      keys == {<<"series", sid, SeriesBucket(dets, sid).radiantOrgId>> :
                 sid \in {x \in sids : bonus(x).radiant # 0}}
              \cup {<<"series", sid, SeriesBucket(dets, sid).direOrgId>> :
                      sid \in {x \in sids : bonus(x).dire # 0}}
      docOf(key) ==
        [tid |-> TID, dateKey |-> dateKey, seriesId |-> key[2], orgId |-> key[3],
         points |-> IF key[3] = SeriesBucket(dets, key[2]).radiantOrgId
                       /\ bonus(key[2]).radiant # 0
                    THEN bonus(key[2]).radiant ELSE bonus(key[2]).dire,
         sweep |-> TRUE]
  IN  [key \in keys |-> docOf(key)]

\* Sum of the points (points || 0) of the documents `keys` of a score collection.
PointsOf(coll, keys) == SumFn([key \in keys |-> toInt(coll[key], "points")])

\* The scores_manager_day document of a locked lineup.
ManagerDayDoc(lu, dateKey, pcoll, tcoll) ==
  LET players == RosterIds(lu)
      byId(id) == PointsOf(pcoll, {x \in DOMAIN pcoll :
                                     /\ pcoll[x].tid = TID /\ pcoll[x].dateKey = dateKey
                                     /\ pcoll[x].steam32 = ParseId(id)})
      captainBase == byId(lu.captain)
      captainFinal == applyCaptainDailyMultiplier(captainBase)
      others == SumSeq([k \in 1..Len(players) |->
                          IF players[k] # lu.captain THEN byId(players[k]) ELSE 0])
      teamPts == PointsOf(tcoll, {x \in DOMAIN tcoll :
                                    /\ tcoll[x].tid = TID /\ tcoll[x].dateKey = dateKey
                                    /\ tcoll[x].orgId = lu.teamCard})
  IN  [tid |-> TID, mid |-> lu.mid, dateKey |-> dateKey,
       totalPoints |-> captainFinal + others + teamPts,
       breakdown |->
         [captain |-> [steam32 |-> lu.captain, pointsBase |-> captainBase,
                       pointsFinal |-> captainFinal],
          cores |-> [i \in 1..Len(lu.cores) |->
                       [steam32 |-> lu.cores[i], points |-> byId(lu.cores[i])]],
          supports |-> [i \in 1..Len(lu.supports) |->
                          [steam32 |-> lu.supports[i], points |-> byId(lu.supports[i])]],
          team |-> [orgId |-> lu.teamCard, points |-> teamPts]]]

\* The scores_manager_day documents written for the locked lineups `ls`
\* (a later lineup with the same mid overwrites an earlier one).
ManagerDayDocs(ls, dateKey, pcoll, tcoll) ==
  LET keys == {<<ls[k].mid, dateKey>> : k \in 1..Len(ls)}
      lastOf(key) == CHOOSE k \in 1..Len(ls) :
                        /\ ls[k].mid = key[1]
                        /\ \A j \in 1..Len(ls) : ls[j].mid = key[1] => j <= k
  IN  [key \in keys |-> ManagerDayDoc(ls[lastOf(key)], dateKey, pcoll, tcoll)]

\* The day's leaderboard entries: every scores_manager_day document of the
\* day, in document-id order (the order of the mids), sorted by total.
LeaderboardOfDay(mdcoll, dateKey) ==
  LET keys == {key \in DOMAIN mdcoll : mdcoll[key].tid = TID /\ mdcoll[key].dateKey = dateKey}
      ranks == SortedSeq({UidRank(key[1]) : key \in keys})
      docAt(k) == mdcoll[CHOOSE key \in keys : UidRank(key[1]) = ranks[k]]
  IN  SortByTotalDesc([k \in 1..Len(ranks) |->
                         [mid |-> docAt(k).mid, totalPoints |-> docAt(k).totalPoints]])

\* What the call before a scoreDay run was: the pair of runs that a
\* statement on repeated runs is about is read from it.
PriorCall == [op |-> lastCall.op, result |-> lastCall.result, dateKey |-> lastCall.dateKey]

\* scoreDay(tid, dateKey) of the stand-alone scorer: it scores the day's
\* matches from the provider into scores_player and scores_team, writes a
\* scores_manager_day document per locked lineup, and rebuilds the
\* leaderboard from the scores_manager_day documents of the day.  A failed
\* first fetch rejects the call before anything is written.
scoreDayLegacy(dk) ==
  LET dets == DayDetails(tournament, dk, now, providerDone)
      pcoll == SetMergeAll(scoresPlayer, PlayerScoreDocs(dets, dk))
      tcoll == SetMergeAll(SetMergeAll(scoresTeam, TeamScoreDocs(dets, dk)),
                           SweepScoreDocs(dets, dk))
      ls == QueryLineups(lineups, TID, dk, TRUE)
      mdcoll == SetMergeAll(scoresManagerDay, ManagerDayDocs(ls, dk, pcoll, tcoll))
  IN  /\ build = "legacy"
      /\ \/ /\ scoresPlayer' = pcoll
            /\ scoresTeam' = tcoll
            /\ scoresManagerDay' = mdcoll
            /\ leaderboards' = SetMerge(leaderboards, dk,
                                        [entries |-> LeaderboardOfDay(mdcoll, dk)])
            /\ lastCall' = [op |-> "scoreDay", prior |-> PriorCall, uid |-> "none", dateKey |-> dk,
                            roster |-> RosterA, at |-> now, result |-> "ok",
                            read |-> [k \in 1..Len(ls) |-> ls[k].mid]]
         \/ /\ UNCHANGED <<scoresPlayer, scoresTeam, scoresManagerDay, leaderboards>>
            /\ lastCall' = [op |-> "scoreDay", prior |-> PriorCall, uid |-> "none", dateKey |-> dk,
                            roster |-> RosterA, at |-> now, result |-> "error",
                            read |-> <<>>]
      /\ calls' = calls + 1
      /\ UNCHANGED <<now, tournament, build, matches, lineups, providerDone, pollVars, locks>>

\* The outcome of adminRescoreDay before it scores.
adminRescoreDayResult(isAdmin, dk) ==
  IF ~isAdmin THEN "permission-denied"
  ELSE IF ~IsDateKey(dk) THEN "invalid-argument"
  ELSE "ok"

\* adminRescoreDay: scoreDay of the deployed module (the main module or
\* functions/src/index.ts) for the day; a rejected Firestore call leaves the
\* leaderboard as it was.
adminRescoreDay(isAdmin, dk) ==
  LET res == adminRescoreDayResult(isAdmin, dk)
      ls == QueryLineups(lineups, TID, dk, FALSE)
  IN  /\ build \in {"main", "index"}
      /\ \/ /\ leaderboards' =
                 IF res # "ok" THEN leaderboards
                 ELSE IF build = "main" THEN scoreDay(leaderboards, matches, lineups, TID, dk)
                 ELSE scoreDayIndex(leaderboards, matches, lineups, TID, dk)
            /\ lastCall' = [op |-> "scoreDay", prior |-> PriorCall, uid |-> "none", dateKey |-> dk,
                            roster |-> RosterA, at |-> now, result |-> res,
                            read |-> IF res = "ok"
                                     THEN [k \in 1..Len(ls) |-> EntryMid(ls[k])]
                                     ELSE <<>>]
         \/ /\ res = "ok"
            /\ leaderboards' = leaderboards
            /\ lastCall' = [op |-> "scoreDay", prior |-> PriorCall, uid |-> "none", dateKey |-> dk,
                            roster |-> RosterA, at |-> now, result |-> "error",
                            read |-> <<>>]
      /\ calls' = calls + 1
      /\ UNCHANGED <<now, storeVars, matches, lineups, providerDone, pollVars, locks>>


\* --- purgeOldMatches ---------------------------------------------------------

\* The dateKey of the UTC date two days before t:
\* Date.UTC(year, month, date - 2, 0, 0, 0), formatted by yyyymmddFromUTC.
purgeCutoffKey(t) ==
  yyyymmddFromUTC(FloorDiv(t, SecondsPerDay) * SecondsPerDay - 2 * SecondsPerDay)

\* A query that takes the cutoff day too.
purgeQueryUpTo(coll, cutoffKey) ==
  {id \in DOMAIN coll : Has(coll[id], "dateKey") /\ coll[id].dateKey <= cutoffKey}

\* where("dateKey", "<", cutoffKey): the dateKeys are strings of eight
\* digits, whose order is the order of the numbers.  (limit(500) is beyond
\* the sizes of the model.)
purgeQuery(coll, cutoffKey) ==
  {id \in DOMAIN coll : Has(coll[id], "dateKey") /\ coll[id].dateKey < cutoffKey}

\* purgeOldMatches: one batch that deletes the documents of the query.
purgeOldMatches ==
  LET cutoffKey == purgeCutoffKey(now)
      old == purgeQuery(matches, cutoffKey)
  IN  /\ matches' = [id \in DOMAIN matches \ old |-> matches[id]]
      /\ lastCall' = [op |-> "purgeOldMatches", uid |-> "none", dateKey |-> cutoffKey,
                      roster |-> RosterA, at |-> now, result |-> "ok", removed |-> old]
      /\ calls' = calls + 1
      /\ UNCHANGED <<now, storeVars, lineups, leaderboards, providerDone, pollVars, locks>>


\* --- The read-only admin callables --------------------------------------------

\* The outcome of adminGetLineup and what it returns: the stored lineup of
\* the user (empty fields when there is none) and whether the day is locked.
\* The user is given by uid; the e-mail lookup does not enter the result's
\* lineup fields.
adminGetLineupResult(isAdmin, dk, user) ==
  IF ~isAdmin THEN "permission-denied"
  ELSE IF ~IsDateKey(dk) \/ user = "" THEN "invalid-argument"
  ELSE "ok"

adminGetLineup(isAdmin, dk, user) ==
  LET res == adminGetLineupResult(isAdmin, dk, user)
      id == LineupId("date", dk, user)
      L == IF id \in DOMAIN lineups THEN lineups[id] ELSE <<>>
      locked == \/ now >= lockTimestamp(dk, getTournament(tournament).lockHourUTC)
                \/ (Has(L, "locked") /\ L.locked)
      call == [op |-> "adminGetLineup", uid |-> user, dateKey |-> dk, roster |-> RosterA,
               at |-> now, result |-> res]
  IN  /\ lastCall' = IF res = "ok"
                     THEN call @@ [returned |->
                            [uid |-> user, locked |-> locked, captain |-> CaptainOf(L),
                             cores |-> CoresOf(L), supports |-> SupportsOf(L),
                             teamCard |-> TeamCardOf(L)]]
                     ELSE call
      /\ calls' = calls + 1
      /\ UNCHANGED <<now, storeVars, matches, lineups, leaderboards, providerDone,
                     pollVars, locks>>

\* The outcome of adminExportScores and what it returns: the stored
\* leaderboard document of the day, or one with no entries.
adminExportScoresResult(isAdmin, dk) ==
  IF ~isAdmin THEN "permission-denied"
  ELSE IF ~IsDateKey(dk) THEN "invalid-argument"
  ELSE "ok"

adminExportScores(isAdmin, dk) ==
  LET res == adminExportScoresResult(isAdmin, dk)
      call == [op |-> "adminExportScores", uid |-> "none", dateKey |-> dk,
               roster |-> RosterA, at |-> now, result |-> res]
  IN  /\ lastCall' = IF res = "ok"
                     THEN call @@ [returned |->
                            IF dk \in DOMAIN leaderboards THEN leaderboards[dk]
                            ELSE [entries |-> <<>>]]
                     ELSE call
      /\ calls' = calls + 1
      /\ UNCHANGED <<now, storeVars, matches, lineups, leaderboards, providerDone,
                     pollVars, locks>>

----------------------------------------------------------------------------
(* Specifications                                                          *)

NoPoll ==
  /\ pc = [p \in Pollers |-> "idle"]
  /\ lidx = [p \in Pollers |-> 1]
  /\ list = [p \in Pollers |-> <<>>]
  /\ ridx = [p \in Pollers |-> 1]
  /\ snap = [p \in Pollers |-> <<>>]
  /\ det = [p \in Pollers |-> <<>>]
  /\ completedDates = [p \in Pollers |-> <<>>]
  /\ sidx = [p \in Pollers |-> 1]
  /\ scoreLog = [p \in Pollers |-> <<>>]
  /\ gained = [p \in Pollers |-> {}]
  /\ wrote = [p \in Pollers |-> {}]
  /\ runs = [p \in Pollers |-> 0]

\* The main module deployed, the stand-alone scorer's collections empty.
MainBuild ==
  /\ build = "main"
  /\ scoresPlayer = <<>> /\ scoresTeam = <<>> /\ scoresManagerDay = <<>>

NoCall ==
  /\ locks = {}
  /\ calls = 0
  /\ lastCall = [op |-> "none", uid |-> "none", dateKey |-> 0, roster |-> RosterA,
                  at |-> 0, result |-> "none"]

\* A stored lineup as submitLineup (main module) writes it.
StoredLineup(uid, dk, r, locked) ==
  [submitLineupPayload(uid, dk, r) EXCEPT !.locked = locked]

\* The lineups of the poller's world: two managers on 4 September, one on 5.
PollLineups ==
  LET a == LineupId("date", 20250904, "u1")
      b == LineupId("date", 20250904, "u2")
      c == LineupId("date", 20250905, "u1")
  IN  [id \in {a, b, c} |->
         IF id = a THEN StoredLineup("u1", 20250904, RosterA, TRUE)
         ELSE IF id = b THEN StoredLineup("u2", 20250904, RosterB, TRUE)
         ELSE StoredLineup("u1", 20250905, RosterA, TRUE)]

\* --- The match cache under arbitrary upserts -----------------------------

MaxCacheId == 2
CacheIds == 1..MaxCacheId

\* The payloads upsert is called with for a match id: 9, 10 or 11 player
\* rows, duration 0 or 1500, a start just before or at midnight UTC, and
\* any one of players, duration or objectives missing.
CachePayloads(id) ==
  {Without(RawMatch(id, st, RawRows(n), d, <<FirstBloodEvent, OtherEvent>>), gone) :
     st \in {DateUTC(2025, 8, 5, 0) - 1, DateUTC(2025, 8, 5, 0)},
     n \in {9, 10, 11}, d \in {0, 1500},
     gone \in {{}, {"players"}, {"duration"}, {"objectives"}}}

InitCache ==
  /\ now = DateUTC(2025, 8, 5, 12)
  /\ tournament = [leagueIds |-> <<1, 2>>]
  /\ matches = <<>>
  /\ lineups = <<>>
  /\ leaderboards = <<>>
  /\ providerDone = {}
  /\ NoPoll /\ NoCall /\ MainBuild

\* upsert(tid, rawMatch) with any payload of the bounds.
CacheUpsert ==
  /\ \E id \in CacheIds : \E raw \in CachePayloads(id) :
        matches' = upsertMatchDoc(matches, TID, raw)
  /\ UNCHANGED <<now, storeVars, lineups, leaderboards, providerDone, pollVars, callVars>>

NextCache == CacheUpsert

SpecCache == InitCache /\ [][NextCache]_vars

\* --- One poller invocation at a time --------------------------------------

InitPoll ==
  /\ now \in PollClock
  /\ tournament = [leagueIds |-> <<1, 2>>]
  /\ matches = <<>>
  /\ lineups = PollLineups
  /\ leaderboards = <<>>
  /\ providerDone = {}
  /\ NoPoll /\ NoCall /\ MainBuild

PollStep(p) ==
  \/ PollStart(p) \/ PollLeague(p) \/ PollExamine(p) \/ PollFetch(p)
  \/ PollUpsert(p) \/ PollScore(p) \/ PollEnd(p)

NextRun == PollStep(1) \/ ProviderFinish \/ PollTick

SpecRun == InitPoll /\ [][NextRun]_vars

\* --- Two overlapping poller invocations -----------------------------------

InitOverlap ==
  /\ now = DateUTC(2025, 8, 4, 10) + 20 * 60
  /\ tournament = [leagueIds |-> <<1>>]
  /\ matches = <<>>
  /\ lineups = PollLineups
  /\ leaderboards = <<>>
  /\ providerDone = {}
  /\ NoPoll /\ NoCall /\ MainBuild

\* Each invocation runs once.
OverlapStep(p) ==
  \/ PollStart(p) \/ PollLeague(p) \/ PollExamine(p) \/ PollFetch(p)
  \/ PollUpsert(p) \/ PollScore(p)

NextOverlap == (\E p \in Pollers : OverlapStep(p)) \/ ProviderFinish

SpecOverlap == InitOverlap /\ [][NextOverlap]_vars

\* --- Lineup callables and the hourly lock ----------------------------------

MaxCalls == 3

\* The instants the clock of the callables takes: around 08:00 UTC (the
\* default lock hour), 11:00 UTC (the hour the sweep locks at), 12:00 UTC
\* and an early hour of the next day.
LineupClock ==
  {DateUTC(2025, 8, 11, 8) - 1, DateUTC(2025, 8, 11, 8),
   DateUTC(2025, 8, 11, 11), DateUTC(2025, 8, 11, 11) + 30 * 60,
   DateUTC(2025, 8, 11, 12), DateUTC(2025, 8, 12, 1)}

\* The dateKey of a request: missing, or 11 September.
CallDateKeys == {0, 20250911}

\* request.auth: nobody, or a manager.
CallAuths == {"none", "u1"}

\* The tournament document: without lockHourUTC, or with lockHourUTC 8 or 12.
LineupTournaments ==
  {[leagueIds |-> <<1>>], [leagueIds |-> <<1>>, lockHourUTC |-> 8],
   [leagueIds |-> <<1>>, lockHourUTC |-> 12]}

InitLineup ==
  /\ now = DateUTC(2025, 8, 11, 8) - 1
  /\ tournament \in LineupTournaments
  /\ matches = <<>>
  /\ lineups = <<>>
  /\ leaderboards = <<>>
  /\ providerDone = {}
  /\ NoPoll /\ NoCall /\ MainBuild

LineupTick ==
  /\ \E t \in LineupClock : t > now /\ now' = t
  /\ UNCHANGED <<storeVars, matches, lineups, leaderboards, providerDone, pollVars,
                 callVars>>

CallSubmitLineup ==
  /\ calls < MaxCalls
  /\ \E auth \in CallAuths : \E dk \in CallDateKeys : \E r \in {RosterA, RosterShort} :
        submitLineup(auth, dk, r)

CallSubmitLineupAddOn ==
  /\ calls < MaxCalls
  /\ \E auth \in CallAuths : \E dk \in CallDateKeys : \E r \in {RosterA, RosterShort} :
        submitLineupAddOn(auth, dk, r)

CallAdminSetLineup ==
  /\ calls < MaxCalls
  /\ \E isAdmin \in BOOLEAN : \E uid \in {"", "u1"} : \E dk \in CallDateKeys :
     \E overrideLock \in BOOLEAN :
        adminSetLineup(isAdmin, uid, dk, RosterB, overrideLock)

CallLockLineupsHourly == calls < MaxCalls /\ lockLineupsHourly

NextLineup ==
  \/ CallSubmitLineup \/ CallSubmitLineupAddOn \/ CallAdminSetLineup
  \/ CallLockLineupsHourly \/ LineupTick

SpecLineup == InitLineup /\ [][NextLineup]_vars


\* --- The day aggregator under re-scoring and lineup changes -----------------

MaxScoreCalls == 3

Builds == {"main", "index", "legacy"}

ScoreDay == 20250904

\* The instants of the aggregator's clock: 4 September 10:40 UTC, after the
\* day's matches and before the hourly sweep locks the day at 11:00; 12:00
\* UTC; and an early hour of the next day.
ScoreClock ==
  {DateUTC(2025, 8, 4, 10) + 40 * 60, DateUTC(2025, 8, 4, 12), DateUTC(2025, 8, 5, 1)}

\* The cache after the poller has upserted the details of matches 1 and 2.
ScoreCache(done) ==
  upsertMatchDoc(upsertMatchDoc(<<>>, TID, MatchDetail(1, done)), TID, MatchDetail(2, done))

\* A lineup as the add-on submitLineup stores it.
StoredLineupAddOn(uid, dk, r, locked) ==
  [tid |-> TID, dateKey |-> dk, mid |-> uid, captain |-> r.captain, cores |-> r.cores,
   supports |-> r.supports, teamCard |-> r.teamCard, locked |-> locked]

\* The lineups stored for the day when scoring starts: for each user none,
\* RosterA or RosterB, as the deployed module's submitLineup stored them
\* (locked: false by the main module and index.ts, before the lock; locked:
\* true by the add-on, at an hour past its lock hour).
ScoreLineups(b, pick) ==
  LET us == {u \in DOMAIN pick : pick[u] # "none"}
      fmt == IF b = "legacy" THEN "uid" ELSE "date"
      r(u) == IF pick[u] = "A" THEN RosterA ELSE RosterB
  IN  [id \in {LineupId(fmt, ScoreDay, u) : u \in us} |->
         IF b = "legacy" THEN StoredLineupAddOn(id.uid, ScoreDay, r(id.uid), TRUE)
         ELSE StoredLineup(id.uid, ScoreDay, r(id.uid), FALSE)]

\* The leaderboard of the day before, written by an earlier run.
PriorLeaderboards ==
  [dk \in {20250903} |-> [entries |-> <<[mid |-> "u1", totalPoints |-> 2500]>>]]

InitScore ==
  /\ now = DateUTC(2025, 8, 4, 10) + 40 * 60
  /\ tournament = [leagueIds |-> <<1, 2>>]
  /\ build \in Builds
  /\ providerDone \in {{1}, {1, 2}}
  /\ matches = ScoreCache(providerDone)
  /\ \E pick \in [{"u1", "u2", "u3"} -> {"none", "A", "B"}] :
        /\ pick["u3"] # "B"
        /\ lineups = ScoreLineups(build, pick)
  /\ leaderboards = PriorLeaderboards
  /\ scoresPlayer = <<>> /\ scoresTeam = <<>> /\ scoresManagerDay = <<>>
  /\ NoPoll /\ NoCall

ScoreTick ==
  /\ \E t \in ScoreClock : t > now /\ now' = t
  /\ UNCHANGED <<storeVars, matches, lineups, leaderboards, providerDone, pollVars,
                 callVars>>

CallAdminRescoreDay ==
  /\ calls < MaxScoreCalls
  /\ \E isAdmin \in BOOLEAN : \E dk \in {0, ScoreDay} : adminRescoreDay(isAdmin, dk)

CallScoreDayLegacy == calls < MaxScoreCalls /\ scoreDayLegacy(ScoreDay)

\* An admin stores a lineup for the day after the lock (main module, index.ts).
ScoreAdminSetLineup ==
  /\ calls < MaxScoreCalls /\ build \in {"main", "index"}
  /\ \E r \in {RosterA, RosterB} : adminSetLineup(TRUE, "u3", ScoreDay, r, TRUE)

\* A manager submits again through the add-on submitLineup.
ScoreSubmitAddOn ==
  /\ calls < MaxScoreCalls /\ build = "legacy"
  /\ \E r \in {RosterA, RosterB} : submitLineupAddOn("u1", ScoreDay, r)

\* The hourly lock sweep, deployed beside the main module and index.ts.
ScoreLockLineupsHourly ==
  calls < MaxScoreCalls /\ build \in {"main", "index"} /\ lockLineupsHourly

NextScore ==
  \/ CallAdminRescoreDay \/ CallScoreDayLegacy \/ ScoreAdminSetLineup
  \/ ScoreSubmitAddOn \/ ScoreLockLineupsHourly \/ ScoreTick

SpecScore == InitScore /\ [][NextScore]_vars

\* --- One series, game after game, and the day aggregators ------------------

MaxSeriesCalls == 2

\* The league of the tournament in this specification.
SeriesLid == getTournament(tournament).leagueIds[1]

\* The games of the series that have started by instant t.
GamesBy(lid, t) == {g \in SeriesGames(lid) : StartOf(SeriesMatch(lid, g)) <= t}

\* The cache after the poller has upserted the final details of games 1..n.
RECURSIVE SeriesCache(_, _)
SeriesCache(lid, n) ==
  IF n = 0 THEN <<>>
  ELSE upsertMatchDoc(SeriesCache(lid, n - 1), TID, FinalDetail(SeriesMatch(lid, n)))

\* A roster whose captain is the first radiant player and whose other
\* players and team do not play on the day.
RosterCaptainOnly == [captain |-> "101", cores |-> <<"111", "112", "113">>,
                      supports |-> <<"114", "115">>, teamCard |-> "9"]

\* Three locked lineups for the day: u1 holds the card of team 7 (radiant),
\* u2 the card of team 8 (dire), u3 the captain-only roster.
SeriesLineups(b) ==
  LET fmt == IF b = "legacy" THEN "uid" ELSE "date"
      r(u) == IF u = "u1" THEN RosterA ELSE IF u = "u2" THEN RosterB ELSE RosterCaptainOnly
  IN  [id \in {LineupId(fmt, SeriesDay, u) : u \in {"u1", "u2", "u3"}} |->
         IF b = "legacy" THEN StoredLineupAddOn(id.uid, SeriesDay, r(id.uid), TRUE)
         ELSE StoredLineup(id.uid, SeriesDay, r(id.uid), TRUE)]

\* Half an hour after the start of game 1, which the provider has finished
\* and, beside the main module, the poller has cached.
InitSeries ==
  /\ \E lid \in SeriesLeagueIds \cup StatLeagueIds : tournament = [leagueIds |-> <<lid>>]
  /\ now = StartOf(SeriesMatch(SeriesLid, 1)) + 30 * 60
  /\ build \in {"main", "legacy"}
  /\ providerDone = {SeriesMatch(SeriesLid, 1)}
  /\ matches = IF build = "main" THEN SeriesCache(SeriesLid, 1) ELSE <<>>
  /\ lineups = SeriesLineups(build)
  /\ leaderboards = <<>>
  /\ scoresPlayer = <<>> /\ scoresTeam = <<>> /\ scoresManagerDay = <<>>
  /\ NoPoll /\ NoCall

\* The next game of the series is played: an hour passes, the provider has
\* its final detail and, beside the main module, the poller has cached it.
SeriesPlay ==
  LET n == Cardinality(GamesBy(SeriesLid, now))
  IN  /\ n + 1 \in SeriesGames(SeriesLid)
      /\ now' = now + SecondsPerHour
      /\ providerDone' = providerDone \cup {SeriesMatch(SeriesLid, n + 1)}
      /\ matches' = IF build = "main" THEN SeriesCache(SeriesLid, n + 1) ELSE matches
      /\ UNCHANGED <<storeVars, lineups, leaderboards, pollVars, callVars>>

SeriesRescoreDay == calls < MaxSeriesCalls /\ adminRescoreDay(TRUE, SeriesDay)

SeriesScoreDayLegacy == calls < MaxSeriesCalls /\ scoreDayLegacy(SeriesDay)

NextSeries == SeriesPlay \/ SeriesRescoreDay \/ SeriesScoreDayLegacy

SpecSeries == InitSeries /\ [][NextSeries]_vars


\* --- Two scoreDay runs for the same day, overlapping --------------------------

MaxEdits == 2

\* The two runs use the per-invocation variables: pc is the run's position,
\* snap the matches it read, list the lineups it read, ridx the lineup the
\* stand-alone scorer is at, det the totals the run has computed.
InitTwoRuns ==
  /\ now = DateUTC(2025, 8, 4, 12)
  /\ tournament = [leagueIds |-> <<1, 2>>]
  /\ build \in {"main", "legacy"}
  /\ providerDone = {1, 2}
  /\ matches = ScoreCache(providerDone)
  /\ \E pick \in [{"u1", "u2"} -> {"A", "B"}] : lineups = ScoreLineups(build, pick)
  /\ leaderboards = PriorLeaderboards
  /\ scoresPlayer = <<>> /\ scoresTeam = <<>> /\ scoresManagerDay = <<>>
  /\ NoPoll /\ NoCall

RunFrame == UNCHANGED <<now, tournament, build, matches, lineups, providerDone, lidx,
                        completedDates, sidx, scoreLog, gained, wrote, runs, callVars>>

\* Main module: the query of the day's complete matches.
RunReadMatches(p) ==
  /\ build = "main" /\ pc[p] = "idle"
  /\ snap' = [snap EXCEPT ![p] = QueryMatches(matches, TID, ScoreDay, TRUE)]
  /\ pc' = [pc EXCEPT ![p] = "lineups"]
  /\ UNCHANGED <<list, ridx, det, leaderboards, scoresPlayer, scoresTeam, scoresManagerDay>>
  /\ RunFrame

\* Stand-alone scorer, steps 1 and 2: the day's matches are scored from the
\* provider into scores_player and scores_team.
RunScoreMatches(p) ==
  LET dets == DayDetails(tournament, ScoreDay, now, providerDone)
  IN  /\ build = "legacy" /\ pc[p] = "idle"
      /\ scoresPlayer' = SetMergeAll(scoresPlayer, PlayerScoreDocs(dets, ScoreDay))
      /\ scoresTeam' = SetMergeAll(SetMergeAll(scoresTeam, TeamScoreDocs(dets, ScoreDay)),
                                   SweepScoreDocs(dets, ScoreDay))
      /\ pc' = [pc EXCEPT ![p] = "lineups"]
      /\ UNCHANGED <<snap, list, ridx, det, leaderboards, scoresManagerDay>>
      /\ RunFrame

\* The query of the day's lineups (the stand-alone scorer: the locked ones).
RunReadLineups(p) ==
  LET ls == QueryLineups(lineups, TID, ScoreDay, build = "legacy")
  IN  /\ pc[p] = "lineups"
      /\ list' = [list EXCEPT ![p] = ls]
      /\ ridx' = [ridx EXCEPT ![p] = 1]
      /\ pc' = [pc EXCEPT ![p] = IF build = "legacy" /\ Len(ls) > 0 THEN "manager" ELSE "board"]
      /\ UNCHANGED <<snap, det, leaderboards, scoresPlayer, scoresTeam, scoresManagerDay>>
      /\ RunFrame

\* Stand-alone scorer, step 3 for one lineup: its totals are summed from
\* the score collections and its scores_manager_day document is written.
RunManagerDay(p) ==
  LET lu == list[p][ridx[p]]
      doc == ManagerDayDoc(lu, ScoreDay, scoresPlayer, scoresTeam)
  IN  /\ build = "legacy" /\ pc[p] = "manager"
      /\ scoresManagerDay' = SetMerge(scoresManagerDay, <<lu.mid, ScoreDay>>, doc)
      /\ det' = [det EXCEPT ![p] = Append(@, [mid |-> doc.mid, totalPoints |-> doc.totalPoints])]
      /\ ridx' = [ridx EXCEPT ![p] = @ + 1]
      /\ pc' = [pc EXCEPT ![p] = IF ridx[p] = Len(list[p]) THEN "board" ELSE "manager"]
      /\ UNCHANGED <<snap, list, leaderboards, scoresPlayer, scoresTeam>>
      /\ RunFrame

\* The leaderboard write.  Main module: the entries computed from what the
\* run read, sorted, in one set() of the document.  Stand-alone scorer, step
\* 4: the entries are the scores_manager_day documents of the day as stored
\* at that moment.
RunWriteBoard(p) ==
  LET es == IF build = "main"
            THEN SortByTotalDesc([k \in 1..Len(list[p]) |->
                                    scoreDayEntry(list[p][k], snap[p])])
            ELSE LeaderboardOfDay(scoresManagerDay, ScoreDay)
  IN  /\ pc[p] = "board"
      /\ leaderboards' = SetMerge(leaderboards, ScoreDay, [entries |-> es])
      /\ det' = [det EXCEPT ![p] = IF build = "main" THEN es ELSE @]
      /\ pc' = [pc EXCEPT ![p] = "done"]
      /\ UNCHANGED <<snap, list, ridx, scoresPlayer, scoresTeam, scoresManagerDay>>
      /\ RunFrame

\* A lineup of the day is replaced while the runs are under way: by an admin
\* (main module) or by its manager through the add-on submitLineup.
RunLineupEdit ==
  /\ calls < MaxEdits
  /\ \E u \in {"u1", "u2"} : \E r \in {RosterA, RosterB} :
        IF build = "main" THEN adminSetLineup(TRUE, u, ScoreDay, r, TRUE)
        ELSE submitLineupAddOn(u, ScoreDay, r)

NextTwoRuns ==
  \/ \E p \in Pollers : RunReadMatches(p)
  \/ \E p \in Pollers : RunScoreMatches(p)
  \/ \E p \in Pollers : RunReadLineups(p)
  \/ \E p \in Pollers : RunManagerDay(p)
  \/ \E p \in Pollers : RunWriteBoard(p)
  \/ RunLineupEdit

SpecTwoRuns == InitTwoRuns /\ [][NextTwoRuns]_vars


\* --- The daily purge of the match cache ---------------------------------------

MaxPurges == 2

PurgeIds == {1, 2, 3}

\* The instants of the purge: 03:05 America/Toronto (07:05 UTC in daylight
\* time) on 1, 2 and 3 September and on 1 and 2 October.
PurgeClock ==
  {DateUTC(2025, 8, d, 7) + 5 * 60 : d \in {1, 2, 3}}
    \cup {DateUTC(2025, 9, d, 7) + 5 * 60 : d \in {1, 2}}

\* The starts of the cached matches: the last second and the first of a
\* UTC day, around 30/31 August and 29/30 September, and 1 September 20:00.
PurgeStarts ==
  {DateUTC(2025, 7, 31, 0) - 1, DateUTC(2025, 7, 31, 0), DateUTC(2025, 8, 1, 20),
   DateUTC(2025, 8, 30, 0) - 1, DateUTC(2025, 8, 30, 0)}

InitPurge ==
  /\ now = DateUTC(2025, 8, 1, 7) + 5 * 60
  /\ tournament = [leagueIds |-> <<1, 2>>]
  /\ matches = <<>>
  /\ \E pick \in [{"u1", "u2", "u3"} -> {"A"}] : lineups = ScoreLineups("main", pick)
  /\ leaderboards = PriorLeaderboards
  /\ providerDone = {}
  /\ NoPoll /\ NoCall /\ MainBuild

\* The poller stores a match that has started.
PurgeUpsert ==
  /\ \E id \in PurgeIds : \E st \in PurgeStarts :
        /\ st <= now
        /\ matches' = upsertMatchDoc(matches, TID,
                        RawMatch(id, st, RawRows(10), 1500, <<FirstBloodEvent>>))
  /\ UNCHANGED <<now, storeVars, lineups, leaderboards, providerDone, pollVars, callVars>>

PurgeTick ==
  /\ \E t \in PurgeClock : t > now /\ now' = t
  /\ UNCHANGED <<storeVars, matches, lineups, leaderboards, providerDone, pollVars,
                 callVars>>

CallPurgeOldMatches == calls < MaxPurges /\ purgeOldMatches

NextPurge == PurgeUpsert \/ PurgeTick \/ CallPurgeOldMatches

SpecPurge == InitPurge /\ [][NextPurge]_vars


\* --- The admin callables, called by admins and by others ---------------------

MaxAdminCalls == 3

\* The arguments of the calls: a dateKey missing, of the scored day or of
\* the day before; a user missing or given.
AdminDateKeys == {0, 20250903, ScoreDay}
AdminUsers == {"", "u1", "u3"}

InitAdmin ==
  /\ now \in {DateUTC(2025, 8, 4, 7), DateUTC(2025, 8, 4, 12)}
  /\ tournament = [leagueIds |-> <<1, 2>>]
  /\ build \in {"main", "index"}
  /\ providerDone = {1, 2}
  /\ matches = ScoreCache(providerDone)
  /\ lineups = ScoreLineups(build, [u \in {"u1", "u2"} |-> IF u = "u1" THEN "A" ELSE "B"])
  /\ leaderboards = PriorLeaderboards
  /\ scoresPlayer = <<>> /\ scoresTeam = <<>> /\ scoresManagerDay = <<>>
  /\ NoPoll /\ NoCall

AdminCallGetLineup ==
  /\ calls < MaxAdminCalls
  /\ \E isAdmin \in BOOLEAN : \E dk \in AdminDateKeys : \E user \in AdminUsers :
        adminGetLineup(isAdmin, dk, user)

AdminCallSetLineup ==
  /\ calls < MaxAdminCalls
  /\ \E isAdmin \in BOOLEAN : \E dk \in AdminDateKeys : \E uid \in AdminUsers :
     \E overrideLock \in BOOLEAN :
        adminSetLineup(isAdmin, uid, dk, RosterB, overrideLock)

AdminCallRescoreDay ==
  /\ calls < MaxAdminCalls
  /\ \E isAdmin \in BOOLEAN : \E dk \in AdminDateKeys : adminRescoreDay(isAdmin, dk)

AdminCallExportScores ==
  /\ calls < MaxAdminCalls
  /\ \E isAdmin \in BOOLEAN : \E dk \in AdminDateKeys : adminExportScores(isAdmin, dk)

NextAdmin ==
  AdminCallGetLineup \/ AdminCallSetLineup \/ AdminCallRescoreDay \/ AdminCallExportScores

SpecAdmin == InitAdmin /\ [][NextAdmin]_vars


\* --- A series whose teams change sides, and the day aggregators -----------------

InitSwap ==
  /\ \E lid \in SwapLeagueIds : tournament = [leagueIds |-> <<lid>>]
  /\ now = StartOf(SeriesMatch(SeriesLid, 1)) + 30 * 60
  /\ build \in {"main", "legacy"}
  /\ providerDone = {SeriesMatch(SeriesLid, 1)}
  /\ matches = IF build = "main" THEN SeriesCache(SeriesLid, 1) ELSE <<>>
  /\ lineups = SeriesLineups(build)
  /\ leaderboards = <<>>
  /\ scoresPlayer = <<>> /\ scoresTeam = <<>> /\ scoresManagerDay = <<>>
  /\ NoPoll /\ NoCall

SpecSwap == InitSwap /\ [][NextSeries]_vars


\* --- A best of 3 and rosters that name a player twice --------------------------

\* A roster whose captain is also its first core (submitLineup stores the
\* roster as it came).
RosterTwice == [captain |-> "101", cores |-> <<"101", "107", "111">>,
                supports |-> <<"104", "115">>, teamCard |-> "7"]

\* The lineups of the day: RosterA, RosterB, and for u3 the captain-only
\* roster or the one that names a player twice.
SweepLineups(r3) ==
  LET r(u) == IF u = "u1" THEN RosterA ELSE IF u = "u2" THEN RosterB ELSE r3
  IN  [id \in {LineupId("date", SeriesDay, u) : u \in {"u1", "u2", "u3"}} |->
         StoredLineup(id.uid, SeriesDay, r(id.uid), TRUE)]

InitSweep ==
  /\ \E lid \in {l \in SeriesLeagueIds : SeriesTypeOfLeague(l) = 1} :
        tournament = [leagueIds |-> <<lid>>]
  /\ now = StartOf(SeriesMatch(SeriesLid, 1)) + 30 * 60
  /\ build = "main"
  /\ providerDone = {SeriesMatch(SeriesLid, 1)}
  /\ matches = SeriesCache(SeriesLid, 1)
  /\ \E r3 \in {RosterCaptainOnly, RosterTwice} : lineups = SweepLineups(r3)
  /\ leaderboards = <<>>
  /\ scoresPlayer = <<>> /\ scoresTeam = <<>> /\ scoresManagerDay = <<>>
  /\ NoPoll /\ NoCall

NextSweep == SeriesPlay \/ SeriesRescoreDay

SpecSweep == InitSweep /\ [][NextSweep]_vars


\* --- Roshan telemetry through the cache and the day aggregator -----------------

MaxRoshanCalls == 2

RoshanDay == 20250905

\* The matches of 5 September by their roshan telemetry: match 4 has none,
\* match 5 has player counters only (radiant 2, dire 1), match 6 has
\* objective events (radiant 1, dire 2) and the counters of match 5, match 7
\* has one radiant event only.
RoshanIds == {4, 5, 6, 7}

RoshanEvent(slot) == [type |-> "CHAT_MESSAGE_ROSHAN_KILL", player_slot |-> slot, time |-> 900]

RoshanEvents(id) ==
  IF id = 6 THEN <<RoshanEvent(2), RoshanEvent(129), RoshanEvent(130)>>
  ELSE IF id = 7 THEN <<RoshanEvent(0)>>
  ELSE <<>>

\* The rows of the detail: in matches 5 and 6 the first radiant row has
\* roshans_killed 2 and the second dire row roshan_kills 1.
RoshanRows(id) ==
  [i \in 1..10 |->
     IF id \in {5, 6} /\ i = 1 THEN RawRow(i) @@ [roshans_killed |-> 2]
     ELSE IF id \in {5, 6} /\ i = 7 THEN RawRow(i) @@ [roshan_kills |-> 1]
     ELSE RawRow(i)]

\* fetchMatchDetail(id) for these matches.
RoshanDetail(id) ==
  RawMatch(id, StartOf(id), RoshanRows(id), 1800,
           <<FirstBloodEvent, OtherEvent>> \o RoshanEvents(id))

InitRoshan ==
  /\ now = DateUTC(2025, 8, 5, 11)
  /\ tournament = [leagueIds |-> <<1, 2>>]
  /\ matches = <<>>
  /\ lineups = [id \in {LineupId("date", RoshanDay, u) : u \in {"u1", "u2"}} |->
                  StoredLineup(id.uid, RoshanDay,
                               IF id.uid = "u1" THEN RosterA ELSE RosterB, TRUE)]
  /\ leaderboards = <<>>
  /\ providerDone = RoshanIds
  /\ NoPoll /\ NoCall /\ MainBuild

\* The poller ingests the detail of a match it has not cached; a minute passes.
RoshanUpsert ==
  /\ \E id \in RoshanIds \ DOMAIN matches :
        matches' = upsertMatchDoc(matches, TID, RoshanDetail(id))
  /\ now' = now + 60
  /\ UNCHANGED <<storeVars, lineups, leaderboards, providerDone, pollVars, callVars>>

RoshanRescoreDay == calls < MaxRoshanCalls /\ adminRescoreDay(TRUE, RoshanDay)

NextRoshan == RoshanUpsert \/ RoshanRescoreDay

SpecRoshan == InitRoshan /\ [][NextRoshan]_vars


\* --- Structures destroyed, over status words -----------------------------------

\* Tower and barracks status words: none, all, single low and high bits,
\* alternating bits, and words with bits above the 11 (6) that count.
TowerWords == {0, 1, 1024, 1365, 2047, 2048, 4095}
RaxWords == {0, 1, 21, 32, 63, 64, 127}

InitStructures ==
  /\ now = DateUTC(2025, 8, 4, 12)
  /\ tournament = [leagueIds |-> <<1, 2>>]
  /\ build \in {"main", "legacy"}
  /\ matches = <<>> /\ lineups = <<>> /\ leaderboards = <<>>
  /\ providerDone = {}
  /\ scoresPlayer = <<>> /\ scoresTeam = <<>> /\ scoresManagerDay = <<>>
  /\ NoPoll /\ NoCall

\* The structures credited to the two sides for a pair of tower words and a
\* pair of barracks words, by the deployed scorer.
CallStructures ==
  /\ calls = 0 /\ calls' = 1
  /\ \E tr \in TowerWords, td \in TowerWords, br \in RaxWords, bd \in RaxWords :
        LET m == [tower_status_radiant |-> tr, tower_status_dire |-> td,
                  barracks_status_radiant |-> br, barracks_status_dire |-> bd]
        IN  lastCall' =
              [op |-> "structures", uid |-> "none", dateKey |-> 0, roster |-> RosterA,
               at |-> now, result |-> "ok", input |-> m,
               towers |-> IF build = "main"
                          THEN [radiant |-> towersDestroyedByRadiant(m),
                                dire |-> towersDestroyedByDire(m)]
                          ELSE [radiant |-> towersDestroyedBy("radiant", m),
                                dire |-> towersDestroyedBy("dire", m)],
               barracks |-> IF build = "main"
                            THEN [radiant |-> barracksDestroyedByRadiant(m),
                                  dire |-> barracksDestroyedByDire(m)]
                            ELSE [radiant |-> raxDestroyedBy("radiant", m),
                                  dire |-> raxDestroyedBy("dire", m)]]
  /\ UNCHANGED <<now, storeVars, matches, lineups, leaderboards, providerDone,
                 pollVars, locks>>

NextStructures == CallStructures

SpecStructures == InitStructures /\ [][NextStructures]_vars


\* --- The player score, over stats rows -----------------------------------------

\* A stats row of player 101 as the provider sends it.
StatsRowOf(k, a, d, lh, dn, obs, sen, camps, slot, won) ==
  [account_id |-> 101, player_slot |-> slot, kills |-> k, deaths |-> d, assists |-> a,
   last_hits |-> lh, denies |-> dn, obs_placed |-> obs, sen_placed |-> sen,
   camps_stacked |-> camps, isRadiant |-> slot < 128, win |-> won, name |-> "P1"]

\* The detail of match 1 with the row in the first place, won by radiant or
\* dire and lasting 1499 or 1500 seconds.
StatsDetail(row, radiantWin, duration) ==
  [RawMatch(1, StartOf(1), [i \in 1..10 |-> IF i = 1 THEN row ELSE RawRow(i)],
            duration, <<FirstBloodEvent>>)
     EXCEPT !.radiant_win = radiantWin]

\* The points of player pid for the match by the deployed scorer: the main
\* module scores the cached record, the stand-alone scorer sums the
\* scores_player documents it writes for the detail.
PlayerPointsBy(b, pid, detail) ==
  IF b = "main" THEN scorePlayerInMatch(pid, toSlimMatch(TID, detail))
  ELSE LET docs == PlayerScoreDocs(<<detail>>, yyyymmddFromUTC(detail.start_time))
       IN  PointsOf(docs, {x \in DOMAIN docs : docs[x].steam32 = ParseId(pid)})

InitPlayerRow ==
  /\ now = DateUTC(2025, 8, 4, 12)
  /\ tournament = [leagueIds |-> <<1, 2>>]
  /\ build \in {"main", "legacy"}
  /\ matches = <<>> /\ lineups = <<>> /\ leaderboards = <<>>
  /\ providerDone = {}
  /\ scoresPlayer = <<>> /\ scoresTeam = <<>> /\ scoresManagerDay = <<>>
  /\ NoPoll /\ NoCall

\* The points of a player for a match with the row, or of a player (115)
\* who has no row in it.
CallScorePlayer ==
  /\ calls = 0 /\ calls' = 1
  /\ \E k \in {0, 8, 12}, a \in {0, 8, 12}, d \in {0, 3}, lh \in {0, 150}, dn \in {0, 7},
        obs \in {0, 4}, sen \in {0, 3}, camps \in {0, 3}, slot \in {0, 128},
        radiantWin \in BOOLEAN, duration \in {1499, 1500}, pid \in {"101", "115"} :
        LET row == StatsRowOf(k, a, d, lh, dn, obs, sen, camps, slot,
                              (slot < 128) = radiantWin)
            detail == StatsDetail(row, radiantWin, duration)
        IN  lastCall' =
              [op |-> "scorePlayer", uid |-> pid, dateKey |-> 0, roster |-> RosterA,
               at |-> now, result |-> "ok", row |-> row, duration |-> duration,
               points |-> PlayerPointsBy(build, pid, detail)]
  /\ UNCHANGED <<now, storeVars, matches, lineups, leaderboards, providerDone,
                 pollVars, locks>>

NextPlayerRow == CallScorePlayer

SpecPlayerRow == InitPlayerRow /\ [][NextPlayerRow]_vars


\* --- First blood, over objective records ---------------------------------------

MaxEvents == 3

\* The objective events of a record: a first blood of a radiant or a dire
\* slot, an event of another type, and first bloods in the shape the
\* stand-alone scorer reads (type without the underscore, with a team code).
FirstBloodDire == [type |-> "CHAT_MESSAGE_FIRST_BLOOD", player_slot |-> 130, time |-> 99]
TeamFirstBlood(code) ==
  [type |-> "CHAT_MESSAGE_FIRSTBLOOD", team |-> code,
   player_slot |-> IF code = 2 THEN 1 ELSE 130, time |-> 95]
EventKinds ==
  {FirstBloodEvent, FirstBloodDire, OtherEvent, TeamFirstBlood(2), TeamFirstBlood(3)}

EventRecords == UNION {[1..n -> EventKinds] : n \in 0..MaxEvents}

\* The detail of match 1 with the objectives.
EventDetail(events) == RawMatch(1, StartOf(1), RawRows(10), 1800, events)

\* The team points of a side for a detail by the deployed scorer: the main
\* module scores the cached record for the side's team card, the
\* stand-alone scorer the detail for the side.
TeamPointsBy(b, side, detail) ==
  IF b = "main"
  THEN scoreTeamCardInMatch(IF side = "radiant" THEN "7" ELSE "8", toSlimMatch(TID, detail))
  ELSE scoreTeamMatch(side, detail)

InitFirstBlood ==
  /\ now = DateUTC(2025, 8, 4, 12)
  /\ tournament = [leagueIds |-> <<1, 2>>]
  /\ build \in {"main", "legacy"}
  /\ matches = <<>> /\ lineups = <<>> /\ leaderboards = <<>>
  /\ providerDone = {}
  /\ scoresPlayer = <<>> /\ scoresTeam = <<>> /\ scoresManagerDay = <<>>
  /\ NoPoll /\ NoCall

\* What the objectives of a record add to the team points of the two sides.
CallFirstBlood ==
  /\ calls = 0 /\ calls' = 1
  /\ \E events \in EventRecords :
        LET added(side) == TeamPointsBy(build, side, EventDetail(events))
                           - TeamPointsBy(build, side, EventDetail(<<>>))
        IN  lastCall' =
              [op |-> "firstBlood", uid |-> "none", dateKey |-> 0, roster |-> RosterA,
               at |-> now, result |-> "ok", input |-> events,
               radiant |-> added("radiant"), dire |-> added("dire")]
  /\ UNCHANGED <<now, storeVars, matches, lineups, leaderboards, providerDone,
                 pollVars, locks>>

NextFirstBlood == CallFirstBlood

SpecFirstBlood == InitFirstBlood /\ [][NextFirstBlood]_vars


\* --- Poller runs with the error log kept ---------------------------------------

\* The pairs <<run, match id>> of the "match detail error" lines logged so far.
FailedFetches == IF Has(lastCall, "failed") THEN lastCall.failed ELSE {}

\* PollFetch with the console.error line of a failed detail fetch kept: the
\* log holds the run and the match id of every failed fetch.
PollFetchLogged(p) ==
  /\ pc[p] = "fetch"
  /\ \/ PollFetch(p) /\ pc'[p] = "upsert"
     \/ /\ ridx' = [ridx EXCEPT ![p] = @ + 1]
        /\ pc' = [pc EXCEPT ![p] = "row"]
        /\ lastCall' = [op |-> "matchDetailError", uid |-> "none", dateKey |-> 0,
                        roster |-> RosterA, at |-> now, result |-> "logged",
                        failed |-> FailedFetches \cup {<<runs[p], CurId(p)>>}]
        /\ UNCHANGED <<now, storeVars, matches, lineups, leaderboards, providerDone,
                       lidx, list, snap, det, completedDates, sidx, scoreLog, gained,
                       wrote, runs, locks, calls>>

RetryStep(p) ==
  \/ PollStart(p) \/ PollLeague(p) \/ PollExamine(p) \/ PollFetchLogged(p)
  \/ PollUpsert(p) \/ PollScore(p) \/ PollEnd(p)

NextRetry == RetryStep(1) \/ ProviderFinish \/ PollTick

SpecRetry == InitPoll /\ [][NextRetry]_vars


\* --- Poller runs with the daily purge between them ------------------------------

\* The instants after the first: the purge's hour (07:05 UTC) on 6 and 7
\* September.
RefetchClock == {DateUTC(2025, 8, d, 7) + 5 * 60 : d \in {6, 7}}

\* The matches of 4 and 5 September are over and the provider has their
\* final details.
InitRefetch ==
  /\ now = DateUTC(2025, 8, 5, 10) + 30 * 60
  /\ tournament = [leagueIds |-> <<1, 2>>]
  /\ matches = <<>>
  /\ lineups = PollLineups
  /\ leaderboards = <<>>
  /\ providerDone = PollMatchIds
  /\ NoPoll /\ NoCall /\ MainBuild

\* Two invocations of the poller, the second after the first has ended.
RefetchPoll ==
  \/ OverlapStep(1)
  \/ pc[1] = "done" /\ OverlapStep(2)

\* purgeOldMatches at its hour.
RefetchPurge == now \in RefetchClock /\ calls < MaxPurges /\ purgeOldMatches

\* Time passes between the invocations.
RefetchTick ==
  /\ pc[1] = "done" /\ pc[2] = "idle"
  /\ \E t \in RefetchClock : t > now /\ now' = t
  /\ UNCHANGED <<storeVars, matches, lineups, leaderboards, providerDone, pollVars,
                 callVars>>

NextRefetch == RefetchPoll \/ RefetchPurge \/ RefetchTick

SpecRefetch == InitRefetch /\ [][NextRefetch]_vars


\* --- Player rows without an account id ----------------------------------------

MaxAnonCalls == 2

\* Matches 8 and 9 of 5 September are the two games of a best-of-3 that the
\* radiant team (7) wins 2-0.  The provider sends the third radiant row of
\* both without account_id, and the third dire row of match 9 as well.
\* Match 7 has an account id on every row.
AnonIds == {7, 8, 9}

AnonRows(id) ==
  [i \in 1..10 |->
     IF (id \in {8, 9} /\ i = 3) \/ (id = 9 /\ i = 8)
     THEN Without(RawRow(i), {"account_id"})
     ELSE RawRow(i)]

\* fetchMatchDetail(id) for these matches.
AnonDetail(id) ==
  IF id = 7 THEN RoshanDetail(7)
  ELSE [RawMatch(id, StartOf(id), AnonRows(id), 1800, <<FirstBloodEvent>>)
          EXCEPT !.series_id = 58]

\* A roster whose captain is the id "0".
RosterZero == [captain |-> "0", cores |-> <<"102", "103", "106">>,
               supports |-> <<"104", "107">>, teamCard |-> "7"]

InitAnon ==
  /\ now = DateUTC(2025, 8, 5, 11)
  /\ tournament = [leagueIds |-> <<1, 2>>]
  /\ matches = <<>>
  /\ \E r \in {RosterB, RosterZero} :
        lineups = [id \in {LineupId("date", RoshanDay, u) : u \in {"u1", "u2"}} |->
                     StoredLineup(id.uid, RoshanDay,
                                  IF id.uid = "u1" THEN RosterA ELSE r, TRUE)]
  /\ leaderboards = <<>>
  /\ providerDone = AnonIds
  /\ NoPoll /\ NoCall /\ MainBuild

\* The poller ingests the detail of a match it has not cached; a minute passes.
AnonUpsert ==
  /\ \E id \in AnonIds \ DOMAIN matches :
        matches' = upsertMatchDoc(matches, TID, AnonDetail(id))
  /\ now' = now + 60
  /\ UNCHANGED <<storeVars, lineups, leaderboards, providerDone, pollVars, callVars>>

AnonRescoreDay == calls < MaxAnonCalls /\ adminRescoreDay(TRUE, RoshanDay)

NextAnon == AnonUpsert \/ AnonRescoreDay

SpecAnon == InitAnon /\ [][NextAnon]_vars


\* --- Poller runs without end ----------------------------------------------------

\* The scheduler starts an invocation every few minutes, for ever: once the
\* counter of runs is at its cap, the next invocation keeps it there.
PollEndAtCap ==
  /\ pc[1] = "done" /\ runs[1] = MaxRuns
  /\ pc' = [pc EXCEPT ![1] = "idle"]
  /\ runs' = [runs EXCEPT ![1] = MaxRuns - 1]
  /\ UNCHANGED <<now, storeVars, matches, lineups, leaderboards, providerDone,
                 lidx, list, ridx, snap, det, completedDates, sidx, scoreLog, gained,
                 wrote, callVars>>

\* A run that has ended makes way for the next one.
PollEndBelowCap == runs[1] < MaxRuns /\ PollEnd(1)

ForeverStep ==
  \/ PollStart(1) \/ PollLeague(1) \/ PollExamine(1) \/ PollFetch(1)
  \/ PollUpsert(1) \/ PollScore(1)

NextForever == ForeverStep \/ PollEndBelowCap \/ PollEndAtCap

\* The steps of a run other than those of its final loop.
PollBeforeScore ==
  \/ PollStart(1) \/ PollLeague(1) \/ PollExamine(1) \/ PollFetch(1)
  \/ PollUpsert(1) \/ PollEndBelowCap \/ PollEndAtCap

\* The final loop is at a day whose scoreDay would change the leaderboards.
ScoreWouldWrite ==
  /\ pc[1] = "score" /\ sidx[1] <= Len(completedDates[1])
  /\ scoreDay(leaderboards, matches, lineups, TID, completedDates[1][sidx[1]])
       # leaderboards

\* The scheduler keeps starting runs and every run goes on (weak fairness of
\* the steps; the final loop's is written out, its steps being enabled
\* exactly when the run is in the loop); a league list fetch, a detail
\* fetch and a scoreDay that are tried again and again succeed at some time
\* (strong fairness of the successful outcomes).
FairForever ==
  /\ WF_vars(PollBeforeScore)
  /\ ([]<>(pc[1] # "score") \/ []<><<PollScore(1)>>_vars)
  /\ SF_vars(PollLeague(1) /\ pc'[1] = "row")
  /\ SF_vars(PollFetch(1) /\ pc'[1] = "upsert")
  /\ (<>[](~ScoreWouldWrite) \/ []<><<PollScore(1) /\ leaderboards' # leaderboards>>_vars)

SpecForever == InitRefetch /\ [][NextForever]_vars /\ FairForever


\* --- Lineup callables and the day aggregator on one day -------------------------

MaxBoardCalls == 4

\* The day's two matches are cached and complete, the tournament's lock hour
\* is 11 and the lock twenty minutes away, no lineup is stored for the day.
InitBoard ==
  /\ now = DateUTC(2025, 8, 4, 10) + 40 * 60
  /\ tournament = [leagueIds |-> <<1, 2>>, lockHourUTC |-> 11]
  /\ providerDone = {1, 2}
  /\ matches = ScoreCache(providerDone)
  /\ lineups = <<>>
  /\ leaderboards = PriorLeaderboards
  /\ NoPoll /\ NoCall /\ MainBuild

\* The days of the requests: the day of the cached matches and the next.
BoardDateKeys == {ScoreDay, 20250905}

\* A manager submits a full roster or one without a team card.
BoardSubmitLineup ==
  /\ calls < MaxBoardCalls
  /\ \E auth \in {"u1", "u2"} : \E dk \in BoardDateKeys : \E r \in {RosterA, RosterShort} :
        submitLineup(auth, dk, r)

\* A manager submits through the add-on submitLineup.
BoardSubmitAddOn ==
  /\ calls < MaxBoardCalls
  /\ \E r \in {RosterA, RosterB} : submitLineupAddOn("u1", ScoreDay, r)

\* An admin stores a lineup for a manager.
BoardAdminSetLineup ==
  /\ calls < MaxBoardCalls
  /\ \E uid \in {"u1", "u3"} : \E r \in {RosterB, RosterShort} :
        adminSetLineup(TRUE, uid, ScoreDay, r, FALSE)

BoardRescoreDay == calls < MaxBoardCalls /\ adminRescoreDay(TRUE, ScoreDay)

NextBoard ==
  \/ BoardSubmitLineup \/ BoardSubmitAddOn \/ BoardAdminSetLineup \/ BoardRescoreDay

SpecBoard == InitBoard /\ [][NextBoard]_vars

----------------------------------------------------------------------------
(* Claims                                                                  *)

StoredComplete(coll, id) ==
  id \in DOMAIN coll /\ Has(coll[id], "complete") /\ coll[id].complete

\* C1: monotonic completeness.  Once the stored record of a match id has
\* complete = true, the stored flag is true after every later upsert,
\* whatever the payload.  (Stated for SpecCache, where every step is an upsert.)
C1_MonotonicComplete ==
  [][\A id \in CacheIds : StoredComplete(matches, id) => StoredComplete(matches', id)]_vars

\* C2: concurrent upserts are safe.  With two overlapping poller invocations
\* the stored record of a match never goes from complete to not complete,
\* and once both have ended it is complete if either upserted a complete
\* payload for it.
C2_ConcurrentUpsertsSafe ==
  [][/\ \A id \in PollMatchIds :
          StoredComplete(matches, id) => StoredComplete(matches', id)
     /\ (\A p \in Pollers : pc'[p] = "done") =>
          \A p \in Pollers : \A id \in wrote'[p] : StoredComplete(matches', id)]_vars

SeqToSet(seq) == {seq[k] : k \in 1..Len(seq)}
NoRepeat(seq) == \A i, j \in 1..Len(seq) : i # j => seq[i] # seq[j]

C4_CompleteIsSkipped ==
  [][(pc[1] = "row" /\ ridx[1] <= Len(list[1]) /\ StoredComplete(matches, CurId(1)))
       => (/\ pc'[1] \in {"row", "league"}
           /\ matches' = matches
           /\ completedDates'[1] = completedDates[1]
           /\ det'[1] = det[1])]_vars

\* C4 witness: in its second run the invocation has gone past a first row
\* whose cached record is complete without upserting it.
C4_Witness ==
  /\ runs[1] = 2 /\ pc[1] = "row" /\ ridx[1] = 2 /\ Len(list[1]) >= 1
  /\ StoredComplete(matches, toInt(list[1][1], "match_id"))
  /\ toInt(list[1][1], "match_id") \notin wrote[1]

\* C5: idempotence of upsert.  For every stored state and every payload,
\* upserting the payload twice leaves the same collection as upserting it once.
C5_UpsertIdempotent ==
  \A id \in CacheIds : \A raw \in CachePayloads(id) :
     upsertMatchDoc(upsertMatchDoc(matches, TID, raw), TID, raw)
       = upsertMatchDoc(matches, TID, raw)

\* C5 witness: upserts have stored a complete and an incomplete record.
C5_Witness ==
  /\ StoredComplete(matches, 1)
  /\ 2 \in DOMAIN matches /\ ~matches[2].complete /\ Len(matches[2].players) = 9

\* C6: the complete flag stored by upsert is true exactly when the payload
\* has exactly 10 player rows and a strictly positive duration.
C6_CompleteIffTenRowsAndDuration ==
  \A id \in CacheIds : \A raw \in CachePayloads(id) :
     upsertMatchDoc(matches, TID, raw)[id].complete
       <=> (/\ Has(raw, "players") /\ Len(raw.players) = 10
            /\ Has(raw, "duration") /\ raw.duration > 0)

\* C6 witness: the cache holds a complete record with 10 rows and an
\* incomplete one with 11 rows and a positive duration.
C6_Witness ==
  /\ StoredComplete(matches, 1) /\ Len(matches[1].players) = 10
  /\ 2 \in DOMAIN matches /\ ~matches[2].complete
  /\ Len(matches[2].players) = 11 /\ matches[2].duration > 0

\* The step is a call of one of the operations `ops`.
IsCallOf(ops) == calls' = calls + 1 /\ lastCall'.op \in ops

\* The collection holds the roster r for manager uid and day dk.
HoldsLineup(coll, uid, dk, r) ==
  \E id \in DOMAIN coll :
     /\ coll[id].mid = uid /\ coll[id].dateKey = dk
     /\ coll[id].captain = r.captain /\ coll[id].cores = r.cores
     /\ coll[id].supports = r.supports /\ coll[id].teamCard = r.teamCard

\* C7: lock gate on submission.  A submitLineup call (of either module) by
\* an authenticated caller with an 8-digit dateKey stores the lineup when
\* now < lockTimestamp(dateKey, lockHourUTC); otherwise it fails with
\* failed-precondition and the stored lineups are unchanged.
C7_SubmitLockGate ==
  [][(/\ IsCallOf({"submitLineup", "submitLineupAddOn"})
      /\ lastCall'.uid # "none" /\ IsDateKey(lastCall'.dateKey))
       => IF now < lockTimestamp(lastCall'.dateKey, getTournament(tournament).lockHourUTC)
          THEN /\ lastCall'.result = "ok"
               /\ HoldsLineup(lineups', lastCall'.uid, lastCall'.dateKey, lastCall'.roster)
          ELSE /\ lastCall'.result = "failed-precondition"
               /\ lineups' = lineups]_vars

\* C8: the lineup lock is one-way.  No call of submitLineup, adminSetLineup
\* or the hourly lock sweep leaves a lineup that was stored with
\* locked = true stored with locked = false, whatever lockHourUTC is.
C8_LockOneWay ==
  [][IsCallOf({"submitLineup", "adminSetLineup", "lockLineupsHourly"})
       => \A id \in DOMAIN lineups :
             lineups[id].locked => lineups'[id].locked]_vars

\* The last operation was a scoreDay run that wrote the day's leaderboard.
AfterScoreDay == lastCall.op = "scoreDay" /\ lastCall.result = "ok"

\* The entries of the leaderboard that run wrote.
WrittenEntries == leaderboards[lastCall.dateKey].entries

\* The place of manager mid's lineup among the lineups the run read.
ReadPlace(mid) == CHOOSE k \in 1..Len(lastCall.read) : lastCall.read[k] = mid
WasRead(mid) == \E k \in 1..Len(lastCall.read) : lastCall.read[k] = mid

\* C9: after a scoreDay run the entries of the written leaderboard are in
\* non-increasing order of totalPoints, and entries with equal totals are
\* in the order in which their lineups were read.
C9_LeaderboardSorted ==
  AfterScoreDay =>
    \A i, j \in 1..Len(WrittenEntries) :
       i < j =>
         /\ WrittenEntries[i].totalPoints >= WrittenEntries[j].totalPoints
         /\ (/\ WrittenEntries[i].totalPoints = WrittenEntries[j].totalPoints
             /\ WasRead(WrittenEntries[i].mid) /\ WasRead(WrittenEntries[j].mid))
              => ReadPlace(WrittenEntries[i].mid) < ReadPlace(WrittenEntries[j].mid)

\* C10: full replace.  After a scoreDay run the leaderboard's entries are
\* exactly one per lineup the run read: as many entries as lineups read,
\* and one entry for each of them; nothing of an earlier run is left.
C10_FullReplace ==
  AfterScoreDay =>
    /\ Len(WrittenEntries) = Len(lastCall.read)
    /\ \A k \in 1..Len(lastCall.read) :
          Cardinality({i \in 1..Len(WrittenEntries) :
                         WrittenEntries[i].mid = lastCall.read[k]}) = 1

\* The stored lineup of manager mid for the day of the run is locked.
HasLockedLineup(mid, dk) ==
  \E id \in DOMAIN lineups :
     /\ lineups[id].dateKey = dk /\ EntryMid(lineups[id]) = mid
     /\ Has(lineups[id], "locked") /\ lineups[id].locked

\* C11: only locked lineups are aggregated.  After a scoreDay run every
\* entry of the leaderboard it wrote is for a lineup stored with
\* locked = true when the run read it (the run leaves the lineups as they are).
C11_OnlyLockedAggregated ==
  AfterScoreDay =>
    \A i \in 1..Len(WrittenEntries) :
       HasLockedLineup(WrittenEntries[i].mid, lastCall.dateKey)

\* The step is an accepted scoreDay run for the day of the accepted run that
\* the call before was; no lineup or match was written between the two.
SecondRunStep ==
  /\ AfterScoreDay
  /\ calls' = calls + 1
  /\ lastCall'.op = "scoreDay" /\ lastCall'.result = "ok"
  /\ lastCall'.dateKey = lastCall.dateKey

IsPrefix(seq, longer) ==
  Len(seq) <= Len(longer) /\ \A k \in 1..Len(seq) : seq[k] = longer[k]

\* C13: a failed league list fetch or a failed match detail fetch does not
\* stop the run.  The run reaches its final loop only after the last league;
\* it leaves a league's list only past its last row; leagues and rows are
\* gone through one by one; a failed fetch leaves the cache as it is and
\* goes on with the next league or the next row; and no step of the run
\* drops a day recorded for the final loop.
C13_FailureIsolation ==
  /\ [](pc[1] \in {"score", "done"} =>
          lidx[1] > Len(getTournament(tournament).leagueIds))
  /\ [][/\ (pc[1] = "row" /\ pc'[1] = "league") => ridx[1] > Len(list[1])
        /\ pc[1] # "idle" => lidx'[1] \in {lidx[1], lidx[1] + 1}
        /\ pc[1] \in {"row", "fetch", "upsert"} => ridx'[1] \in {ridx[1], ridx[1] + 1}
        /\ pc[1] = "league" =>
              /\ pc'[1] \in {"league", "row", "score"}
              /\ pc'[1] = "score" => lidx[1] > Len(getTournament(tournament).leagueIds)
              /\ matches' = matches
        /\ (pc[1] = "fetch" /\ pc'[1] \notin {"fetch", "upsert"}) =>
              (pc'[1] = "row" /\ ridx'[1] = ridx[1] + 1 /\ matches' = matches)
        /\ pc[1] # "idle" => IsPrefix(completedDates[1], completedDates'[1])]_vars

\* C13 witness: a first run has ended without match 1 in the cache, which
\* only a failed list fetch of league 1 or a failed detail fetch of match 1
\* leaves out (no record and a start at least 12 minutes old), after it
\* completed match 3 of the other league and scored that match's day.
C13_Witness ==
  /\ runs[1] = 1 /\ pc[1] = "done"
  /\ 1 \notin DOMAIN matches
  /\ 3 \in wrote[1]
  /\ 20250905 \in SeqToSet(scoreLog[1])
  /\ 20250905 \in DOMAIN leaderboards



\* C14: a failure of scoreDay for one day in the final loop does not keep
\* scoreDay from being invoked for the other days recorded in the run: when
\* the run has ended, scoreDay has been invoked for every recorded day, in
\* the order they were recorded, whatever the outcome of each invocation.
C14_ScoreFailureIsolated ==
  pc[1] = "done" => scoreLog[1] = completedDates[1]

\* C14 witness: a first run has ended that recorded two days; scoreDay
\* failed for the first (it has no leaderboard) and was still invoked, and
\* succeeded, for the second.
C14_Witness ==
  /\ runs[1] = 1 /\ pc[1] = "done"
  /\ completedDates[1] = <<20250904, 20250905>>
  /\ scoreLog[1] = <<20250904, 20250905>>
  /\ 20250904 \notin DOMAIN leaderboards
  /\ 20250905 \in DOMAIN leaderboards



\* The standing of the series among the games the run of scoreDay counted
\* (those started by the instant of the run).
GamesCounted == Cardinality(GamesBy(SeriesLid, lastCall.at))
RadiantWins == SideWins(SeriesLid, TRUE, GamesCounted)
DireWins == SideWins(SeriesLid, FALSE, GamesCounted)

\* The team-card points the run wrote for manager mid: the Team item of the
\* entry's roster (main module), breakdown.team.points of the manager's
\* scores_manager_day document (stand-alone scorer).
TeamPointsWritten(mid) ==
  IF build = "legacy" THEN scoresManagerDay[<<mid, lastCall.dateKey>>].breakdown.team.points
  ELSE LET e == WrittenEntries[CHOOSE i \in 1..Len(WrittenEntries) : WrittenEntries[i].mid = mid]
           k == CHOOSE j \in 1..Len(e.roster) : e.roster[j].role = "Team"
       IN  e.roster[k].points

\* The part of them that comes from the matches of the day one by one.
TeamMatchPoints(card) ==
  IF build = "legacy"
  THEN PointsOf(scoresTeam, {x \in DOMAIN scoresTeam :
                               /\ x[1] = "match" /\ scoresTeam[x].dateKey = lastCall.dateKey
                               /\ scoresTeam[x].orgId = card})
  ELSE TeamDayPoints(card, QueryMatches(matches, TID, lastCall.dateKey, TRUE))

\* The team-sweep bonus in the points written for the manager holding `card`.
TeamSweepWritten(mid, card) == TeamPointsWritten(mid) - TeamMatchPoints(card)

HasSwept(side) ==
  /\ SideWins(SeriesLid, side, GamesCounted) = WinsToDecide(SeriesTypeOfLeague(SeriesLid))
  /\ SideWins(SeriesLid, ~side, GamesCounted) = 0

\* C16: a sweep is detected exactly when one team has the wins that decide
\* the series type (2 in a best of 3, 3 in a best of 5) and the other has
\* none: a best of 3 at 2-1 and a best of 5 at 2-0 give no sweep bonus.
\* (Read right after the run, before a further game is played.)
C16_SweepIffDecidedToNil ==
  (AfterScoreDay /\ lastCall.at = now) =>
    /\ (TeamSweepWritten("u1", "7") # 0) <=> HasSwept(TRUE)
    /\ (TeamSweepWritten("u2", "8") # 0) <=> HasSwept(FALSE)



\* The run of scoreDay is the last thing that happened.
JustScored == AfterScoreDay /\ lastCall.at = now

\* The stored lineup of manager mid for the day of the run.
LineupOf(mid) ==
  lineups[CHOOSE id \in DOMAIN lineups :
            lineups[id].dateKey = lastCall.dateKey /\ EntryMid(lineups[id]) = mid]

\* The day's matches as the main module's scoreDay reads them.
DayMatches == QueryMatches(matches, TID, lastCall.dateKey, TRUE)

\* The raw points of the day of a roster player: the sum of the player's
\* match points and sweep bonuses (main module), the sum of the player's
\* scores_player documents of the day (stand-alone scorer).
PlayerRaw(L, pid) ==
  IF build = "legacy"
  THEN PointsOf(scoresPlayer, {x \in DOMAIN scoresPlayer :
                                 /\ scoresPlayer[x].dateKey = lastCall.dateKey
                                 /\ scoresPlayer[x].steam32 = ParseId(pid)})
  ELSE PlayerDayPoints(pid, DayMatches) + playerSweepsOf(L, DayMatches, pid, PlayerWeights.sweep)

\* The team-card points of the day with the team-sweep points.
TeamRaw(L) ==
  IF build = "legacy"
  THEN PointsOf(scoresTeam, {x \in DOMAIN scoresTeam :
                               /\ scoresTeam[x].dateKey = lastCall.dateKey
                               /\ scoresTeam[x].orgId = TeamCardOf(L)})
  ELSE TeamDayPoints(TeamCardOf(L), DayMatches) + teamSweepOf(L, DayMatches)

SlotsRaw(L, pids) == SumSeq([k \in 1..Len(pids) |-> PlayerRaw(L, pids[k])])

StatMatch == SeriesMatch(SeriesLid, 1)
ScoredPlayers == {"102", "103", "104", "106", "107"}
PlaysRadiant(pid) == ParseId(pid) - 100 <= 5

\* The points written for the player: the player's roster item in u1's
\* entry (main module), the player's scores_player document of the game
\* (stand-alone scorer).
PlayerPointsWritten(pid) ==
  IF build = "legacy" THEN scoresPlayer[<<StatMatch, ParseId(pid)>>].points
  ELSE LET e == WrittenEntries[CHOOSE i \in 1..Len(WrittenEntries) : WrittenEntries[i].mid = "u1"]
           k == CHOOSE j \in 1..Len(e.roster) :
                   e.roster[j].role # "Team" /\ e.roster[j].steam32 = pid
       IN  e.roster[k].points

\* The points of the same row in the same game had it lasted an hour.
PlayerPointsLongGame(pid) ==
  IF build = "legacy"
  THEN LET d == FinalDetail(StatMatch)
       IN  scorePlayerMatch(d.players[ParseId(pid) - 100], [d EXCEPT !.duration = 3600])
  ELSE scorePlayerInMatch(pid, [DayMatches[1] EXCEPT !.duration = 3600])

\* C18: the win-under-25 bonus of 15 is given for a player in a match
\* exactly when the player is on the winning side and the match lasted less
\* than 1500 seconds: it is given at 1499 and not at 1500, and never to a
\* player of the losing side.
C18_WinUnder25 ==
  (JustScored /\ IsStatLeague(SeriesLid)) =>
    \A pid \in ScoredPlayers :
       PlayerPointsWritten(pid) - PlayerPointsLongGame(pid) =
         IF PlaysRadiant(pid) = StatRadiantWin(SeriesLid) /\ StatDuration(SeriesLid) < 1500
         THEN 1500 ELSE 0

\* C18 witness: the main module has scored a radiant win in 1499 seconds and
\* the radiant core 102 has the bonus while the dire core 106 has not.
C18_Witness ==
  /\ JustScored /\ build = "main" /\ IsStatLeague(SeriesLid)
  /\ StatRadiantWin(SeriesLid) /\ StatDuration(SeriesLid) = 1499
  /\ PlayerPointsWritten("102") - PlayerPointsLongGame("102") = 1500
  /\ PlayerPointsWritten("106") = PlayerPointsLongGame("106")



\* The invocation is at a row whose match is not complete in the cache.
AtOpenRow ==
  /\ pc[1] = "row" /\ ridx[1] <= Len(list[1]) /\ CurId(1) # 0
  /\ ~StoredComplete(matches, CurId(1))
  /\ CurId(1) \in DOMAIN matches => ~looksComplete(matches[CurId(1)])

\* The age of the row's match, and whether it may be fetched: 15 minutes old
\* with a cached record, 10 minutes old without.
RowAge == now - toInt(CurRow(1), "start_time")
OldEnough == RowAge >= (IF CurId(1) \in DOMAIN matches THEN 15 * 60 ELSE 10 * 60)

\* C19: the freshness guard.  When the invocation examines a row whose match
\* is not complete in the cache, it goes on to fetch the detail exactly when
\* the match is at least 15 minutes old and has a cached record, or at least
\* 10 minutes old and has none; otherwise it passes to the next row with
\* no fetch and no upsert.
C19_FreshnessGuard ==
  [][(AtOpenRow /\ (pc'[1] # pc[1] \/ ridx'[1] # ridx[1])) =>
       /\ (pc'[1] = "fetch") <=> OldEnough
       /\ ~OldEnough => (/\ pc'[1] = "row" /\ ridx'[1] = ridx[1] + 1
                         /\ matches' = matches /\ det'[1] = det[1])]_vars

\* C19 witness: the invocation is about to fetch a match that has a cached,
\* incomplete record and is exactly 15 minutes old.
C19_Witness ==
  /\ pc[1] = "fetch" /\ CurId(1) \in DOMAIN matches
  /\ ~StoredComplete(matches, CurId(1))
  /\ now - toInt(CurRow(1), "start_time") = 15 * 60



\* The step is a run of scoreDay, accepted or failed.
ScoreDayStep == calls' = calls + 1 /\ lastCall'.op = "scoreDay"

\* C20: scoreDay is read-only on its inputs.  A run of scoreDay(tid, dateKey)
\* changes no lineup and no match record, and leaves every leaderboard other
\* than the one of (tid, dateKey) as it was, adding and removing none.
C20_ScoreDayFrame ==
  [][ScoreDayStep =>
       /\ lineups' = lineups
       /\ matches' = matches
       /\ DOMAIN leaderboards' \ {lastCall'.dateKey} = DOMAIN leaderboards \ {lastCall'.dateKey}
       /\ \A dk \in DOMAIN leaderboards \ {lastCall'.dateKey} :
             leaderboards'[dk] = leaderboards[dk]]_vars

\* C20 witness: a run has written the leaderboard of 4 September, with an
\* entry, beside the leaderboard of the day before.
C20_Witness ==
  /\ AfterScoreDay /\ lastCall.dateKey = ScoreDay
  /\ Len(WrittenEntries) > 0
  /\ 20250903 \in DOMAIN leaderboards
  /\ DOMAIN lineups # {} /\ DOMAIN matches # {}



\* The roster of a request has the core and support counts of the
\* tournament's configuration.
RoleCountsMatch(r) ==
  Len(r.cores) = RolesOf(tournament).cores /\ Len(r.supports) = RolesOf(tournament).supports

\* C21: role-slot counts are enforced at submission.  A submitLineup call
\* (of either module) whose core or support count differs from the
\* tournament's configuration fails with invalid-argument and stores nothing.
C21_RoleCountsEnforced ==
  [][(/\ IsCallOf({"submitLineup", "submitLineupAddOn"})
      /\ lastCall'.uid # "none" /\ IsDateKey(lastCall'.dateKey)
      /\ ~RoleCountsMatch(lastCall'.roster))
       => (lastCall'.result = "invalid-argument" /\ lineups' = lineups)]_vars



\* The (mid, totalPoints) pairs of an entries list.
TotalsOf(es) == [k \in 1..Len(es) |-> [mid |-> es[k].mid, totalPoints |-> es[k].totalPoints]]

\* Run p has computed the total of every lineup it read.
HasOutput(p) == pc[p] \in {"board", "done"} /\ (build = "main" => pc[p] = "done")

\* The complete output of run p: its own totals, sorted.
RunOutput(p) == SortByTotalDesc(TotalsOf(det[p]))

\* C22: last writer wins without mixing.  While two scoreDay runs for the
\* same day overlap, the stored entries of the day are at every moment the
\* complete output of one run, never entries computed by different runs.
C22_NoMixing ==
  (\E p \in Pollers : pc[p] = "done")
    => \E p \in Pollers :
          HasOutput(p) /\ TotalsOf(leaderboards[ScoreDay].entries) = RunOutput(p)


\* The number of the UTC day of a dateKey (0 = 1 September 2025).
DayNumber(dk) == CHOOSE n \in (0 - 40)..70 : yyyymmddFromUTC(n * SecondsPerDay) = dk

\* The number of the UTC day of an instant.
Today(t) == CHOOSE n \in (0 - 40)..70 : n * SecondsPerDay <= t /\ t < (n + 1) * SecondsPerDay

\* C23: retention.  purgeOldMatches deletes only match records whose dateKey
\* is strictly earlier than the UTC date two days before now; every record
\* with a dateKey inside the window is left as it is, and so is every lineup
\* and every leaderboard.
C23_Retention ==
  [][IsCallOf({"purgeOldMatches"})
       => /\ \A id \in DOMAIN matches :
                IF DayNumber(matches[id].dateKey) < Today(now) - 2
                THEN TRUE
                ELSE id \in DOMAIN matches' /\ matches'[id] = matches[id]
          /\ DOMAIN matches' \subseteq DOMAIN matches
          /\ lineups' = lineups /\ leaderboards' = leaderboards]_vars

\* A purge has deleted a record and has kept one of the cutoff day itself.
C23_Witness ==
  /\ lastCall.op = "purgeOldMatches" /\ lastCall.at = now
  /\ lastCall.removed # {}
  /\ \E id \in DOMAIN matches : matches[id].dateKey = lastCall.dateKey
  /\ lineups # <<>> /\ leaderboards # <<>>


\* A step is a call of one of the four admin callables by a caller without
\* the admin claim.
CallWithoutAdminClaim ==
  \/ \E dk \in AdminDateKeys : \E user \in AdminUsers : adminGetLineup(FALSE, dk, user)
  \/ \E dk \in AdminDateKeys : \E uid \in AdminUsers : \E overrideLock \in BOOLEAN :
        adminSetLineup(FALSE, uid, dk, RosterB, overrideLock)
  \/ \E dk \in AdminDateKeys : adminRescoreDay(FALSE, dk)
  \/ \E dk \in AdminDateKeys : adminExportScores(FALSE, dk)

\* C24: the admin endpoints (adminSetLineup, adminRescoreDay, adminGetLineup,
\* adminExportScores) called without the admin claim fail with
\* permission-denied before any read or write: nothing stored changes and
\* nothing read is returned.
C24_AdminOnly ==
  [][CallWithoutAdminClaim
       => /\ lastCall'.result = "permission-denied"
          /\ ~Has(lastCall', "returned")
          /\ lineups' = lineups /\ leaderboards' = leaderboards /\ matches' = matches]_vars

\* A caller without the admin claim has asked for the scores of a day whose
\* leaderboard is stored, after an admin's call has been served.
C24_Witness ==
  /\ lastCall.op = "adminExportScores" /\ lastCall.result = "permission-denied"
  /\ lastCall.dateKey \in DOMAIN leaderboards
  /\ ScoreDay \in DOMAIN leaderboards
  /\ lineups # <<>>


\* The games among the counted ones that the team with this id won, on
\* either side.
TeamWins(team) ==
  Cardinality({g \in 1..GamesCounted :
                 (RadiantTeamOf(SeriesLid, g) = team) = RadiantWonGame(SeriesLid, g)})

\* C25: sweep detection counts wins per team id, not per map side.  In a
\* best of 3 whose first two games the same team wins, radiant in one and
\* dire in the other, that team's card gets the team-sweep bonus; when each
\* team wins one of the two games (each on the radiant side), no card does.
C25_SweepByTeamId ==
  (JustScored /\ IsSwapLeague(SeriesLid) /\ GamesCounted = 2) =>
    /\ TeamSweepWritten("u1", "7") = (IF TeamWins(7) = 2 THEN TeamWeights.sweep ELSE 0)
    /\ TeamSweepWritten("u2", "8") = (IF TeamWins(8) = 2 THEN TeamWeights.sweep ELSE 0)


\* The player is on the side that has swept the day's series (players
\* 101..105 are radiant, 106..110 dire, the others do not play).
OnSweepingSide(pid) ==
  \/ ParseId(pid) \in 101..105 /\ HasSwept(TRUE)
  \/ ParseId(pid) \in 106..110 /\ HasSwept(FALSE)

\* The points a roster slot has before the captain multiplier when it
\* carries one player-sweep bonus for the swept series its player played in
\* on the sweeping side.
SlotRawExpected(pid) ==
  PlayerDayPoints(pid, DayMatches) + (IF OnSweepingSide(pid) THEN PlayerWeights.sweep ELSE 0)

\* C26: player sweep bonus.  For every stored lineup, each roster slot
\* (captain, core, support) whose player appeared on the sweeping side of
\* a swept series has exactly one player-sweep bonus for it in its points,
\* and a slot whose player was on the swept side or did not play has none.
C26_PlayerSweepPerSlot ==
  JustScored =>
    \A i \in 1..Len(WrittenEntries) :
      \A k \in 1..Len(WrittenEntries[i].roster) :
        LET item == WrittenEntries[i].roster[k]
        IN  /\ item.role \in {"Core", "Support"}
                 => item.points = SlotRawExpected(item.steam32)
            /\ item.role = "Captain"
                 => item.points = captainMultiplier(SlotRawExpected(item.steam32))


\* C27: merge-style upsert.  An upsert whose raw payload lacks a field
\* (players, objectives or duration here) leaves the value stored for the
\* match id in that field as it was.
C27_MergeKeepsMissing ==
  [][\A id \in CacheIds : \A raw \in CachePayloads(id) :
       (id \in DOMAIN matches /\ matches' = upsertMatchDoc(matches, TID, raw))
         => \A f \in {"players", "objectives", "duration"} :
               ~Has(raw, f) => matches'[id][f] = matches[id][f]]_vars


\* The roshan kills of a side in the raw telemetry of a match: its
\* roshan-kill objective events when the match has such events, else the sum
\* of its players' counters.
TelemetryRoshans(id, radiant) ==
  LET evs == RoshanEvents(id)
      rows == RoshanRows(id)
  IN  IF Len(evs) > 0
      THEN Len(SelectSeq(evs, LAMBDA o : (o.player_slot < 128) = radiant))
      ELSE SumSeq([i \in 1..Len(rows) |->
                     IF (rows[i].player_slot < 128) = radiant THEN RoshanCounter(rows[i])
                     ELSE 0])

\* The team-card points of a match apart from roshan kills: those of the
\* same match ingested without roshan telemetry.
TeamCardWithoutRoshans(card, id) ==
  scoreTeamCardInMatch(card,
    toSlimMatch(TID, RawMatch(id, StartOf(id), RawRows(10), 1800,
                              <<FirstBloodEvent, OtherEvent>>)))

\* C28: roshan attribution through the pipeline.  For matches ingested by
\* upsert, the team-card points scoreDay writes credit each side, at 3 points
\* a kill, with its roshan-kill objective events when the raw telemetry has
\* such events, and with the sum of its players' roshan counters when it
\* has none.
C28_RoshansThroughPipeline ==
  JustScored =>
    \A u \in {"u1", "u2"} :
      LET card == IF u = "u1" THEN "7" ELSE "8"
      IN  TeamPointsWritten(u) =
            SumFn([id \in DOMAIN matches |->
                     TeamCardWithoutRoshans(card, id)
                       + TeamWeights.roshans * TelemetryRoshans(id, u = "u1")])


\* The set bits among the low `bits` bits of a status word.
LowBitsSet(n, bits) == Cardinality({i \in 0..(bits - 1) : (n \div Pow2(i)) % 2 = 1})

\* C29: structures destroyed.  For every pair of status words the towers
\* credited to a side are 11 minus the set bits among the low 11 bits of
\* the opponent's tower status, the barracks 6 minus the set bits among the
\* low 6 bits of the opponent's barracks status; both are within 0..11 and
\* 0..6.
C29_StructuresDestroyed ==
  lastCall.op = "structures" =>
    LET m == lastCall.input
    IN  /\ lastCall.towers.radiant = 11 - LowBitsSet(m.tower_status_dire, 11)
        /\ lastCall.towers.dire = 11 - LowBitsSet(m.tower_status_radiant, 11)
        /\ lastCall.barracks.radiant = 6 - LowBitsSet(m.barracks_status_dire, 6)
        /\ lastCall.barracks.dire = 6 - LowBitsSet(m.barracks_status_radiant, 6)
        /\ lastCall.towers.radiant \in 0..11 /\ lastCall.towers.dire \in 0..11
        /\ lastCall.barracks.radiant \in 0..6 /\ lastCall.barracks.dire \in 0..6


\* 3*kills + 2*assists - deaths + 0.02*(lastHits + denies) + 0.2*wardsPlaced
\* + 0.5*campsStacked, plus 15 if won, plus 2 if kills + assists >= 20, in
\* hundredths; the wards placed are the observer wards.
RowFormula(row) ==
  300 * row.kills + 200 * row.assists - 100 * row.deaths
    + 2 * (row.last_hits + row.denies) + 20 * row.obs_placed + 50 * row.camps_stacked
    + (IF row.win THEN 1500 ELSE 0)
    + (IF row.kills + row.assists >= 20 THEN 200 ELSE 0)

\* C30: scorePlayer result.  For every stats row the points are those of
\* the formula (a row with kills + assists = 20 has the +2), and a player
\* absent from the match scores 0.
C30_ScorePlayerFormula ==
  lastCall.op = "scorePlayer" =>
    lastCall.points = (IF lastCall.uid = "101" THEN RowFormula(lastCall.row) ELSE 0)


\* The side of the first first-blood objective event of a record, by its
\* player slot, or "none".
FirstBloodSide(events) ==
  LET fbs == SelectSeq(events, LAMBDA o : o.type = "CHAT_MESSAGE_FIRST_BLOOD")
  IN  IF Len(fbs) = 0 THEN "none"
      ELSE IF fbs[1].player_slot < 128 THEN "radiant" ELSE "dire"

\* C31: first blood.  For every match the first-blood +2 goes to the side
\* (player slot < 128 radiant, otherwise dire) of the first first-blood
\* objective event of the record and to no other side; a record without
\* such an event gives it to neither side.
C31_FirstBloodOneSide ==
  lastCall.op = "firstBlood" =>
    /\ lastCall.radiant =
         (IF FirstBloodSide(lastCall.input) = "radiant" THEN TeamWeights.firstBlood ELSE 0)
    /\ lastCall.dire =
         (IF FirstBloodSide(lastCall.input) = "dire" THEN TeamWeights.firstBlood ELSE 0)


\* The lineup id is stored with locked = true.
StoredLocked(coll, id) ==
  id \in DOMAIN coll /\ Has(coll[id], "locked") /\ coll[id].locked

\* C32: the hourly lock sweep sets a lineup's locked flag to true only when
\* now >= lockTimestamp(dateKey, lockHourUTC) for the lineup's dateKey and
\* the tournament's lock hour: never while submitLineup would still accept
\* a submission for that day.
C32_SweepLocksAfterLockTime ==
  [][IsCallOf({"lockLineupsHourly"})
       => \A id \in DOMAIN lineups :
             (~StoredLocked(lineups, id) /\ StoredLocked(lineups', id))
               => now >= lockTimestamp(lineups[id].dateKey,
                                       getTournament(tournament).lockHourUTC)]_vars


\* The detail fetch of match id failed in an earlier run of the poller.
FailedBefore(id) == \E r \in 1..(runs[1] - 1) : <<r, id>> \in FailedFetches

\* C33: retry on the next run.  A failed detail fetch leaves the cache as it
\* is, and when a later run examines a row of a match whose detail fetch
\* failed in an earlier run and the row passes the freshness guard (not
\* complete in the cache and old enough), the run goes on to fetch its
\* detail.
C33_RetryNextRun ==
  [][/\ (pc[1] = "fetch" /\ pc'[1] = "row") => matches' = matches
     /\ (/\ AtOpenRow /\ OldEnough /\ FailedBefore(CurId(1))
         /\ (pc'[1] # pc[1] \/ ridx'[1] # ridx[1]))
          => (pc'[1] = "fetch" /\ ridx'[1] = ridx[1])]_vars

\* C33 witness: the second run is about to fetch the detail of a match whose
\* detail fetch failed in the first run and whose cached record, stored by
\* the first run from the other league's list, is not complete.
C33_Witness ==
  /\ runs[1] = 2 /\ pc[1] = "fetch"
  /\ <<1, CurId(1)>> \in FailedFetches
  /\ CurId(1) \in DOMAIN matches /\ ~StoredComplete(matches, CurId(1))


\* C34: fetch once.  Across poller runs and purgeOldMatches runs, once a
\* detail fetch of a run has stored a match as complete, a later run does
\* not go on to fetch that match's detail, and no upsert of the later run
\* for that match records its day for aggregation.
C34_FetchOnce ==
  [][/\ (pc[2] = "row" /\ pc'[2] = "fetch") => CurId(2) \notin wrote[1]
     /\ (pc[2] = "upsert" /\ pc'[2] = "row" /\ CurId(2) \in wrote[1])
          => completedDates'[2] = completedDates[2]]_vars


\* The stored record m with only the rows that have an account id in the
\* provider's payload.
NamedRowsOnly(m) ==
  LET ks == SortedSeq({k \in 1..Len(m.players) :
                         Has(AnonDetail(m.match_id).players[k], "account_id")})
  IN  [m EXCEPT !.players = [j \in 1..Len(ks) |-> m.players[ks[j]]]]

NamedDayMatches == [k \in 1..Len(DayMatches) |-> NamedRowsOnly(DayMatches[k])]

\* The raw points of the day of a roster player from the rows that have an
\* account id: match points and sweep bonuses.
NamedRaw(L, pid) ==
  PlayerDayPoints(pid, NamedDayMatches)
  + playerSweepsOf(L, NamedDayMatches, pid, PlayerWeights.sweep)

\* C35: data quality.  A player row that has no account id in the provider's
\* payload contributes points (match score or sweep bonus) to no roster slot
\* of any stored lineup, and the other rows of the match are still scored:
\* every player item of every written entry has the points that the rows
\* with an account id give it (times 1.5 for the captain).
C35_AnonymousRowSkipped ==
  JustScored =>
    \A i \in 1..Len(WrittenEntries) :
       LET e == WrittenEntries[i]
           L == LineupOf(e.mid)
       IN  \A k \in 1..Len(e.roster) :
              e.roster[k].role # "Team" =>
                e.roster[k].points =
                  (IF e.roster[k].role = "Captain"
                   THEN captainMultiplier(NamedRaw(L, e.roster[k].steam32))
                   ELSE NamedRaw(L, e.roster[k].steam32))


\* C36: no lost aggregation.  Whenever a match is complete in the cache, at
\* some time a leaderboard of its day is written: when the scoreDay call of
\* the run that completed it fails, a later run invokes scoreDay for the
\* day.
C36_NoLostAggregation ==
  \A id \in PollMatchIds :
     StoredComplete(matches, id) ~> (yyyymmddFromUTC(StartOf(id)) \in DOMAIN leaderboards)


HasTeamItem(e) == \E k \in 1..Len(e.roster) : e.roster[k].role = "Team"

\* The sum of the points of the items of an entry's roster breakdown.
ItemsTotal(e) == SumSeq([k \in 1..Len(e.roster) |-> e.roster[k].points])

\* The sum over the player items alone.
PlayerItemsTotal(e) ==
  SumSeq([k \in 1..Len(e.roster) |->
            IF e.roster[k].role = "Team" THEN 0 ELSE e.roster[k].points])

\* The entry e breaks down the roster of the lineup L.
IsEntryOf(e, L) ==
  /\ e.mid = EntryMid(L)
  /\ [k \in 1..(1 + Len(CoresOf(L)) + Len(SupportsOf(L))) |-> e.roster[k].steam32]
       = <<CaptainOf(L)>> \o CoresOf(L) \o SupportsOf(L)

\* C37: for every leaderboard entry written by scoreDay, totalPoints is the
\* sum of the points of the items of its roster breakdown (the captain item
\* already multiplied), and the entry has no team item exactly when the
\* teamCard of its lineup is empty; the team contribution is then 0.
C37_TotalIsSumOfItems ==
  (JustScored /\ build = "main") =>
    LET ls == QueryLineups(lineups, TID, lastCall.dateKey, FALSE)
    IN  /\ Len(WrittenEntries) = Len(ls)
        /\ \A i \in 1..Len(WrittenEntries) :
              LET e == WrittenEntries[i]
              IN  /\ e.totalPoints = ItemsTotal(e)
                  /\ \E k \in 1..Len(ls) :
                        /\ IsEntryOf(e, ls[k])
                        /\ HasTeamItem(e) <=> (TeamCardOf(ls[k]) # "")
                  /\ ~HasTeamItem(e) => e.totalPoints = PlayerItemsTotal(e)

\* C37 witness: a run has written an entry without a team item whose total
\* is its captain's and cores' points, beside an entry with a team item.
C37_Witness ==
  /\ JustScored /\ build = "main"
  /\ \E i, j \in 1..Len(WrittenEntries) :
        /\ ~HasTeamItem(WrittenEntries[i]) /\ WrittenEntries[i].totalPoints > 0
        /\ WrittenEntries[i].roster[1].points > 0
        /\ HasTeamItem(WrittenEntries[j])


\* The ids of the lineup documents a step creates or changes.
WrittenLineups ==
  {id \in DOMAIN lineups' : id \notin DOMAIN lineups \/ lineups'[id] # lineups[id]}

\* C38: submitLineup (of either module) by an authenticated user u creates
\* or modifies only the lineup record of (tid, dateKey, u): every lineup
\* record stays, at most one record is written and it is u's for that
\* tournament and day, and no match record and no leaderboard changes.
C38_SubmitWritesOwnLineupOnly ==
  [][(IsCallOf({"submitLineup", "submitLineupAddOn"}) /\ lastCall'.uid # "none")
       => /\ matches' = matches
          /\ leaderboards' = leaderboards
          /\ DOMAIN lineups \subseteq DOMAIN lineups'
          /\ Cardinality(WrittenLineups) <= 1
          /\ \A id \in DOMAIN lineups :
                lineups[id].mid # lastCall'.uid => lineups'[id] = lineups[id]
          /\ \A id \in WrittenLineups :
                /\ lineups'[id].tid = TID
                /\ lineups'[id].dateKey = lastCall'.dateKey
                /\ lineups'[id].mid = lastCall'.uid
                /\ EntryMid(lineups'[id]) = lastCall'.uid]_vars

\* C38 witness: a submission was stored while another owner had a lineup for
\* the same day and a leaderboard of the day and match records existed.
C38_Witness ==
  /\ lastCall.op \in {"submitLineup", "submitLineupAddOn"}
  /\ lastCall.result = "ok"
  /\ \E id \in DOMAIN lineups :
        /\ lineups[id].dateKey = lastCall.dateKey /\ lineups[id].mid = lastCall.uid
        /\ lineups[id].captain = lastCall.roster.captain
  /\ \E id \in DOMAIN lineups :
        lineups[id].dateKey = lastCall.dateKey /\ lineups[id].mid # lastCall.uid
  /\ lastCall.dateKey \in DOMAIN leaderboards
  /\ Len(leaderboards[lastCall.dateKey].entries) > 0
  /\ DOMAIN matches # {}


\* The stored lineups of owner mid for the day dk.
LineupsOfOwner(dk, mid) ==
  {id \in DOMAIN lineups :
     /\ lineups[id].tid = TID /\ lineups[id].dateKey = dk
     /\ EntryMid(lineups[id]) = mid}

\* The places of owner mid in the leaderboard of the day dk.
EntriesOfOwner(dk, mid) ==
  {k \in 1..Len(leaderboards[dk].entries) : leaderboards[dk].entries[k].mid = mid}

\* C39: after any sequence of submitLineup, adminSetLineup and scoreDay
\* operations there is at most one stored lineup per (tid, dateKey, owner),
\* and every leaderboard for (tid, dateKey) has at most one entry per owner
\* id.
C39_OneLineupAndEntryPerOwner ==
  /\ \A dk \in BoardDateKeys : \A u \in SeqToSet(Uids) :
        Cardinality(LineupsOfOwner(dk, u)) <= 1
  /\ \A dk \in DOMAIN leaderboards : \A u \in SeqToSet(Uids) :
        Cardinality(EntriesOfOwner(dk, u)) <= 1

====
